---- MODULE Spec2Model ----
(***************************************************************************)
(* The link endpoint of wgengine/netstack/link_endpoint.go.  Outbound:     *)
(* queue (a buffered channel, a closed flag and the RWMutex guarding it),  *)
(* and the linkEndpoint operations that use it (WritePackets, Read,        *)
(* ReadContext, Drain, Close).  Inbound: the dispatcher set by Attach and  *)
(* the deliveries of injectInbound, enqueueGRO and flushGRO, and           *)
(* rxChecksumOffload computed on the bytes of its packet.                  *)
(* Each goroutine is a thread with a program                               *)
(* counter; every step is one atomic operation of the Go code (a mutex     *)
(* operation, a channel operation, a reference-count operation) together   *)
(* with the goroutine-local code that follows it.                          *)
(* Besides the endpoint: one preference of types/prefs with the calls made *)
(* on it, and TSRecorderReconciler.Reconcile of cmd/k8s-operator on one    *)
(* TSRecorder, each call taken whole.                                      *)
(***************************************************************************)
EXTENDS Integers, Sequences, FiniteSets, TLC

\* Capacity of the outbound channel (the size argument of newLinkEndpoint).
QueueSize == 2
\* Largest batch handed to one WritePackets call.
MaxBatch == 3
\* Number of packet buffers the embedded stack creates in a run.
MaxPkts == 4

Writers == {"w1", "w2"}
Closers == {"c1", "c2"}
Reader == "r"
Drainers == Closers \cup {Reader}
\* The goroutine that owns the device-read loop and calls injectInbound,
\* enqueueGRO and flushGRO, and the goroutine of the stack that calls Attach.
Inbound == "in"
Attacher == "a1"
Threads == Writers \cup Drainers \cup {Inbound, Attacher}
\* Number of calls made on a preference in a run.
MaxCalls == 4
\* The values of a preference of type T, and the zero value of T.
Values == {0, 1, 2}
ZeroValue == 0
\* prefs.ErrManaged and prefs.ErrReadOnly.
ErrManaged == "ErrManaged"
ErrReadOnly == "ErrReadOnly"

\* The goroutines calling MTU, SetMTU, LinkAddress, SetLinkAddress and
\* IsAttached.
Accessors == {"x1", "x2"}

\* Number of buffers rxChecksumOffload creates in a run.
MaxInbound == 2
Bufs == 1..MaxInbound
\* The stack.NetworkDispatcher values passed to Attach; NoDisp is nil.
Dispatchers == {"D1", "D2"}
NoDisp == "nil"

Pkts == 1..MaxPkts
\* The nil *stack.PacketBuffer.
NoPkt == 0

\* tcpip.Error values returned by queue.Write and WritePackets.
ErrNil == "nil"
ErrClosedForSend == "ErrClosedForSend"
ErrNoBufferSpace == "ErrNoBufferSpace"

NoThread == "none"

\* Number of Reconcile calls in a run.
MaxReconciles == 3
\* An error that is not nil, and one made by errors.Wrap or fmt.Errorf.
ErrSome == "error"
ErrWrapped == "wrapped error"
\* The status of a TSRecorder: its TSRecorderReady condition and
\* Status.Hostname. A new TSRecorder has no condition.
NoStatus == [Ready |-> "", Reason |-> "", Hostname |-> ""]
\* No TSRecorder on the API server, and no Reconcile call made yet.
NoTSRecorder ==
    [exists |-> FALSE, deleting |-> FALSE, finalizer |-> FALSE,
     others |-> FALSE, status |-> NoStatus]
NoReconcile ==
    [requeue |-> FALSE, err |-> ErrNil, cleanup |-> "none", update |-> "none",
     statusUpdate |-> "none", path |-> "none"]

\* The MTUs and link addresses given to newLinkEndpoint, SetMTU and
\* SetLinkAddress.
MTUs == {1280, 1500}
InitMTU == 1280
LinkAddrs == {"", "02:00:00:00:00:01"}
InitLinkAddr == ""

\* The zero packet.Parsed, and no result yet.
NoParsed == [IPVersion |-> 0, IPProto |-> 0, Src |-> <<>>, Dst |-> <<>>,
             b |-> <<>>]
NoResult == [kind |-> "none"]

VARIABLES
    q_c,          \* queue.c: the buffered packets, oldest first
    q_c_closed,   \* whether close(q.c) has run
    q_closed,     \* queue.closed
    q_mu,         \* queue.mu: [w |-> holder of the write lock, r |-> holders of the read lock]
    refs,         \* reference count of every PacketBuffer
    panicked,     \* a goroutine has panicked (close of a closed channel, send on a closed channel)
    pc,           \* position of every goroutine
    pkts,         \* WritePackets: the batch of the call
    idx,          \* WritePackets: index in pkts of the packet being written
    n,            \* WritePackets: n
    wrote,        \* queue.Write: wrote
    werr,         \* the error returned by the writer's last queue.Write
    ret,          \* WritePackets: the last return value [n, err]
    nextPkt,      \* the next PacketBuffer to be created
    rctx,         \* ReadContext: state of ctx ("live" or "done")
    rret,         \* <<the value ReadContext returned>> until the consumer's next call, <<>> otherwise
    dpkt,         \* Drain: pkt
    dcount,       \* Drain: c
    \* history
    sendLog,      \* packets sent into q.c, in order
    counted,      \* packets counted in a WritePackets return value
    readLog,      \* packets returned to the reader by Read/ReadContext, in order
    released,     \* number of DecRef calls Drain made on each packet
    closeReturned,\* some linkEndpoint.Close call has returned
    afterClose,   \* per writer: the current queue.Write started after queue.Close returned
    solo,         \* per writer: the last call started on an empty open queue and ran alone
    rpre,         \* the consumer's last call was ReadContext with a cancelled context on a non-empty queue
    dstart,       \* the consumer's Drain in progress: <<the queue at the call>> while it has run alone, <<>> otherwise
    \* inbound
    l_mu,         \* linkEndpoint.mu, as q_mu
    dispatcher,   \* linkEndpoint.dispatcher
    gro_dispatcher, \* linkEndpoint.gro.Dispatcher
    gro_held,     \* the buffers held by linkEndpoint.gro, oldest first
    irefs,        \* reference count of every buffer made by rxChecksumOffload
    nextBuf,      \* the next buffer rxChecksumOffload makes
    i_d,          \* injectInbound: d
    i_pkt,        \* injectInbound, enqueueGRO: pkt
    i_ok,         \* injectInbound, enqueueGRO: rxChecksumOffload(p) != nil
    att,          \* <<the result of the last IsAttached call>>, <<>> before the first
    \* inbound history
    delivered,    \* the DeliverNetworkPacket calls, in order
    lastAttached, \* the dispatcher of the last Attach call that returned
    i_afterClose, \* the inbound call in progress started after a Close returned
    mtu,          \* linkEndpoint.mtu
    linkAddr,     \* linkEndpoint.linkAddr
    enqueued,     \* the buffers rxChecksumOffload made for enqueueGRO since the last gro.Flush, in order
    epoch,        \* since the last gro.Flush: "clean" (no enqueueGRO call), "used" (enqueueGRO calls, no Attach after the first), "mixed" (an Attach after an enqueueGRO call)
    \* rxChecksumOffload called on its own
    v_pc,         \* "idle", "parsed" (the caller holds a packet.Parsed) or "returned"
    v_p,          \* the packet.Parsed of the call, with the caller's buffer in field b
    v_called,     \* the buffer as it was when rxChecksumOffload was called
    v_ret,        \* the result of rxChecksumOffload
    \* MTU, SetMTU, LinkAddress, SetLinkAddress and IsAttached, one goroutine per caller
    a_pc,         \* position of every such goroutine
    a_ret,        \* per goroutine: <<the method, the value returned>> of its last MTU or LinkAddress call, <<>> before the first
    mtuDone,      \* the MTU given to newLinkEndpoint, then the one of the last SetMTU call that returned
    enqAt,        \* per buffer the batcher has kept: l.gro.Dispatcher when l.gro.Enqueue kept it
    \* a preference (prefs.preference[T])
    p_s,          \* preference.s: [Value, Default, Managed, ReadOnly], Value being <<>> (not set) or <<the value>>
    p_ret,        \* the last call on the preference: [op, arg, err]
    p_n,          \* number of calls made on the preference
    \* a TSRecorder and its reconciler
    t_obj,        \* the TSRecorder on the API server: [exists, deleting, finalizer, others, status]
    t_rec,        \* the last Reconcile call: what it returned and the calls it made
    t_n           \* number of Reconcile calls made

qvars == <<q_c, q_c_closed, q_closed, q_mu, refs, panicked>>
wvars == <<pkts, idx, n, wrote, werr, ret, nextPkt>>
rvars == <<rctx, rret>>
dvars == <<dpkt, dcount>>
hvars == <<sendLog, counted, readLog, released, closeReturned,
           afterClose, solo, dstart, rpre>>
ivars == <<l_mu, dispatcher, gro_dispatcher, gro_held, irefs, nextBuf, i_d,
           i_pkt, i_ok, att, delivered, lastAttached, i_afterClose, mtu,
           linkAddr, enqueued, epoch>>
vvars == <<v_pc, v_p, v_called, v_ret>>
avars == <<a_pc, a_ret, mtuDone>>
pvars == <<p_s, p_ret, p_n>>
tvars == <<t_obj, t_rec, t_n>>
yvars == <<avars, pvars, tvars>>
xvars == <<yvars, enqAt>>
vars == <<qvars, pc, wvars, rvars, dvars, hvars, ivars, vvars, xvars>>

----------------------------------------------------------------------------
(* Helpers *)

Range(s) == {s[k] : k \in 1..Len(s)}

\* Number of occurrences of p in the sequence s.
Occ(s, p) == Cardinality({k \in 1..Len(s) : s[k] = p})

\* sync.RWMutex
CanRLock == q_mu.w = NoThread
\* Faulty variant of CanLock: a writer does not wait for the readers.
CanLockIgnoresReaders == q_mu.w = NoThread
CanLock == q_mu.w = NoThread /\ q_mu.r = {}
\* The same for linkEndpoint.mu.
LCanRLock == l_mu.w = NoThread
\* Faulty variant of LCanLock: a writer does not wait for the readers.
LCanLockIgnoresReaders == l_mu.w = NoThread
\* linkEndpoint.mu.Lock() can return: no goroutine holds the lock.
LCanLock == l_mu.w = NoThread /\ l_mu.r = {}

\* Faulty variants of ChanCanSend: a channel with one slot too many, and a
\* channel that never refuses a send.
ChanCanSendOffByOne(ch) == Len(ch) <= QueueSize
ChanCanSendAlways(ch) == TRUE

\* A send on the buffered channel is ready when a slot is free.
ChanCanSend(ch) == Len(ch) < QueueSize

\* Faulty variants of ChanRecv: the newest packet is received first, and a
\* receive that throws the received value away.
ChanRecvLast(ch) ==
    IF Len(ch) > 0 THEN [pkt |-> ch[Len(ch)], rest |-> SubSeq(ch, 1, Len(ch) - 1)]
    ELSE [pkt |-> NoPkt, rest |-> ch]
ChanRecvDiscard(ch) ==
    IF Len(ch) > 0 THEN [pkt |-> NoPkt, rest |-> Tail(ch)]
    ELSE [pkt |-> NoPkt, rest |-> ch]

\* The result of a receive that is ready: the value and the remaining buffer.
\* A closed, empty channel yields nil.
ChanRecv(ch) ==
    IF Len(ch) > 0 THEN [pkt |-> Head(ch), rest |-> Tail(ch)]
    ELSE [pkt |-> NoPkt, rest |-> ch]

\* Faulty variant of ChanCanRecv: a closed queue is read as empty.
ChanCanRecvOpenOnly(ch, chClosed) == Len(ch) > 0 /\ ~chClosed

\* A receive is ready when a packet is buffered or the channel is closed.
ChanCanRecv(ch, chClosed) == Len(ch) > 0 \/ chClosed

\* Faulty variant of SelectHasDefault: a select without the default branch,
\* which waits for a free slot.
SelectHasDefaultNo == FALSE

\* queue.Write: the select has a default branch, taken when the send is not
\* ready.
SelectHasDefault == TRUE

\* PacketBuffer.IncRef on a buffer whose reference count is r.
IncRef(r) == r + 1

\* Faulty variant of DecRef: the reference is not given back.
DecRefNoop(r) == r

\* PacketBuffer.DecRef on a buffer whose reference count is r.
DecRef(r) == r - 1

\* Faulty variant of DrainContinues: Drain stops after its first Read.
DrainContinuesNever(p) == FALSE

\* Drain: the loop test pkt != nil.
DrainContinues(p) == p # NoPkt

\* Faulty variant of QueueIsClosed: queue.Write without the test.
QueueIsClosedNever == FALSE

\* queue.Write: the test `if q.closed`, made under the read lock.
QueueIsClosed == q_closed

\* Faulty variants of ShouldCloseChan: queue.Close without the test, and a
\* queue.Close that sets the flag but never closes the channel.
CloseChanAlways == TRUE
CloseChanNever == FALSE

\* queue.Close: the test `if !q.closed` that guards close(q.c).
ShouldCloseChan == ~q_closed

\* queue.Write: the error returned after the select.
QueueWriteErr(wr) == IF wr THEN ErrNil ELSE ErrNoBufferSpace

\* Faulty variants of ReturnsErr: no error is ever returned, and an error
\* other than ErrNoBufferSpace is returned whatever n is.
ReturnsErrNever(e, nn) == FALSE
ReturnsErrAnyN(e, nn) == e # ErrNoBufferSpace

\* WritePackets: the test `!ok && n == 0` that returns the error of a failed
\* Write (e is not nil).
ReturnsErr(e, nn) == e # ErrNoBufferSpace /\ nn = 0

\* Faulty variant of Breaks: the loop skips the packet and goes on.
BreaksNever(e) == FALSE

\* WritePackets: the `break` that ends the loop at a failed Write whose error
\* is not returned.
Breaks(e) == TRUE

\* Faulty variant of BreakCount: the failed packet is counted too.
BreakCountFailed(nn) == nn + 1

\* WritePackets: the count returned after the break, n being the number of
\* Writes that returned nil.
BreakCount(nn) == nn

----------------------------------------------------------------------------
Init ==
    /\ q_c = <<>>
    /\ q_c_closed = FALSE
    /\ q_closed = FALSE
    /\ q_mu = [w |-> NoThread, r |-> {}]
    /\ refs = [p \in Pkts |-> 1]
    /\ panicked = FALSE
    /\ pc = [t \in Threads |-> "idle"]
    /\ pkts = [w \in Writers |-> <<>>]
    /\ idx = [w \in Writers |-> 1]
    /\ n = [w \in Writers |-> 0]
    /\ wrote = [w \in Writers |-> FALSE]
    /\ werr = [w \in Writers |-> ErrNil]
    /\ ret = [w \in Writers |-> [n |-> 0, err |-> ErrNil]]
    /\ nextPkt = 1
    /\ rctx = "live"
    /\ rret = <<>>
    /\ dpkt = [t \in Drainers |-> NoPkt]
    /\ dcount = [t \in Drainers |-> 0]
    /\ sendLog = <<>>
    /\ counted = {}
    /\ readLog = <<>>
    /\ released = [p \in Pkts |-> 0]
    /\ closeReturned = FALSE
    /\ afterClose = [w \in Writers |-> FALSE]
    /\ solo = [w \in Writers |-> FALSE]
    /\ dstart = <<>>
    /\ rpre = FALSE
    /\ l_mu = [w |-> NoThread, r |-> {}]
    /\ dispatcher = NoDisp
    /\ gro_dispatcher = NoDisp
    /\ gro_held = <<>>
    /\ irefs = [b \in Bufs |-> 0]
    /\ nextBuf = 1
    /\ i_d = NoDisp
    /\ i_pkt = NoPkt
    /\ i_ok = FALSE
    /\ att = <<>>
    /\ delivered = <<>>
    /\ lastAttached = NoDisp
    /\ i_afterClose = FALSE
    /\ mtu = InitMTU
    /\ linkAddr = InitLinkAddr
    /\ enqueued = <<>>
    /\ epoch = "clean"
    /\ v_pc = "idle"
    /\ v_p = NoParsed
    /\ v_called = <<>>
    /\ v_ret = NoResult
    /\ a_pc = [t \in Accessors |-> "idle"]
    /\ a_ret = [t \in Accessors |-> <<>>]
    /\ mtuDone = InitMTU
    /\ enqAt = [b \in Bufs |-> NoDisp]
    /\ p_s = [Value |-> <<>>, Default |-> ZeroValue, Managed |-> FALSE,
              ReadOnly |-> FALSE]
    /\ p_ret = [op |-> "none", arg |-> ZeroValue, err |-> ErrNil]
    /\ p_n = 0
    /\ t_obj = NoTSRecorder
    /\ t_rec = NoReconcile
    /\ t_n = 0

----------------------------------------------------------------------------
(* linkEndpoint.WritePackets and queue.Write, one goroutine per writer *)

\* The packet the writer's current (or last) queue.Write is about.
CurPkt(w) == pkts[w][idx[w]]

\* WritePackets returns (nn, e).
WritePacketsReturn(w, nn, e) ==
    /\ ret' = [ret EXCEPT ![w] = [n |-> nn, err |-> e]]
    /\ counted' = counted \cup {pkts[w][k] : k \in 1..nn}
    /\ pc' = [pc EXCEPT ![w] = "idle"]
    /\ n' = [n EXCEPT ![w] = 0]
    /\ UNCHANGED <<idx, afterClose>>

\* The body of the loop of WritePackets once l.q.Write(pkt) has returned e:
\* a failed Write returns its error or breaks out of the loop, a successful
\* one is counted, and the loop goes on to the next packet, if any.
WritePacketsLoop(w, e) ==
    /\ werr' = [werr EXCEPT ![w] = e]
    /\ IF e # ErrNil /\ ReturnsErr(e, n[w])
       THEN WritePacketsReturn(w, 0, e)
       ELSE IF e # ErrNil /\ Breaks(e)
       THEN WritePacketsReturn(w, BreakCount(n[w]), ErrNil)
       ELSE LET nn == IF e = ErrNil THEN n[w] + 1 ELSE n[w] IN
            IF idx[w] < Len(pkts[w])
            THEN /\ n' = [n EXCEPT ![w] = nn]
                 /\ idx' = [idx EXCEPT ![w] = @ + 1]
                 /\ pc' = [pc EXCEPT ![w] = "rlock"]
                 /\ afterClose' = [afterClose EXCEPT ![w] = q_closed]
                 /\ UNCHANGED <<ret, counted>>
            ELSE WritePacketsReturn(w, nn, ErrNil)

\* A call of WritePackets with a batch of m new packets.
WritePackets(w, m) ==
    /\ ~panicked
    /\ UNCHANGED <<ivars, vvars, xvars>>
    /\ pc[w] = "idle"
    /\ nextPkt + m <= MaxPkts + 1
    /\ pkts' = [pkts EXCEPT ![w] = [k \in 1..m |-> nextPkt + k - 1]]
    /\ nextPkt' = nextPkt + m
    /\ idx' = [idx EXCEPT ![w] = 1]
    /\ werr' = [werr EXCEPT ![w] = ErrNil]
    /\ solo' = [v \in Writers |->
                  IF v = w
                  THEN q_c = <<>> /\ ~q_closed
                       /\ \A u \in Writers \ {w} : pc[u] = "idle"
                  ELSE FALSE]
    /\ IF m = 0
       THEN /\ ret' = [ret EXCEPT ![w] = [n |-> 0, err |-> ErrNil]]
            /\ afterClose' = [afterClose EXCEPT ![w] = FALSE]
            /\ UNCHANGED pc
       ELSE /\ pc' = [pc EXCEPT ![w] = "rlock"]
            /\ afterClose' = [afterClose EXCEPT ![w] = q_closed]
            /\ UNCHANGED ret
    /\ dstart' = <<>>
    /\ UNCHANGED <<qvars, n, wrote, rvars, dvars, sendLog, counted, readLog,
                   released, closeReturned, rpre>>

\* queue.Write: q.mu.RLock() and the test of q.closed. A closed queue returns
\* ErrClosedForSend after RUnlock; otherwise pkt.IncRef(), the operand of the
\* send, is evaluated.
QueueWriteRLock(w) ==
    /\ ~panicked
    /\ UNCHANGED <<ivars, vvars, xvars>>
    /\ pc[w] = "rlock"
    /\ CanRLock
    /\ IF QueueIsClosed
       THEN /\ WritePacketsLoop(w, ErrClosedForSend)
            /\ UNCHANGED <<q_mu, refs, wrote>>
       ELSE /\ q_mu' = [q_mu EXCEPT !.r = @ \cup {w}]
            /\ refs' = [refs EXCEPT ![CurPkt(w)] = IncRef(@)]
            /\ wrote' = [wrote EXCEPT ![w] = FALSE]
            /\ pc' = [pc EXCEPT ![w] = "select"]
            /\ UNCHANGED <<werr, n, idx, ret, counted, afterClose>>
    /\ UNCHANGED <<q_c, q_c_closed, q_closed, panicked, pkts, nextPkt, rvars,
                   dvars, sendLog, readLog, released, closeReturned, solo,
                   dstart, rpre>>

\* queue.Write: the select. The send either succeeds at once or the default
\* branch is taken; a send on a closed channel panics.
QueueWriteSelect(w) ==
    /\ ~panicked
    /\ UNCHANGED <<ivars, vvars, xvars>>
    /\ pc[w] = "select"
    /\ IF q_c_closed
       THEN /\ panicked' = TRUE
            /\ UNCHANGED <<q_c, wrote, pc, sendLog>>
       ELSE IF ChanCanSend(q_c)
       THEN /\ q_c' = Append(q_c, CurPkt(w))
            /\ sendLog' = Append(sendLog, CurPkt(w))
            /\ wrote' = [wrote EXCEPT ![w] = TRUE]
            /\ pc' = [pc EXCEPT ![w] = "runlock"]
            /\ UNCHANGED panicked
       ELSE /\ SelectHasDefault
            /\ pc' = [pc EXCEPT ![w] = "decref"]
            /\ UNCHANGED <<q_c, wrote, panicked, sendLog>>
    /\ UNCHANGED <<q_c_closed, q_closed, q_mu, refs, pkts, idx, n, werr, ret,
                   nextPkt, rvars, dvars, counted, readLog,
                   released, closeReturned, afterClose, solo, dstart, rpre>>

\* queue.Write: pkt.DecRef() in the default branch of the select.
QueueWriteDecRef(w) ==
    /\ ~panicked
    /\ UNCHANGED <<ivars, vvars, xvars>>
    /\ pc[w] = "decref"
    /\ refs' = [refs EXCEPT ![CurPkt(w)] = DecRef(@)]
    /\ pc' = [pc EXCEPT ![w] = "runlock"]
    /\ UNCHANGED <<q_c, q_c_closed, q_closed, q_mu, panicked, wvars, rvars,
                   dvars, hvars>>

\* queue.Write: q.mu.RUnlock() and the return; WritePackets goes on.
QueueWriteRUnlock(w) ==
    /\ ~panicked
    /\ UNCHANGED <<ivars, vvars, xvars>>
    /\ pc[w] = "runlock"
    /\ q_mu' = [q_mu EXCEPT !.r = @ \ {w}]
    /\ WritePacketsLoop(w, QueueWriteErr(wrote[w]))
    /\ UNCHANGED <<q_c, q_c_closed, q_closed, refs, panicked, pkts, wrote,
                   nextPkt, rvars, dvars, sendLog, readLog, released,
                   closeReturned, solo, dstart, rpre>>

----------------------------------------------------------------------------
(* The consumer goroutine: Read, ReadContext and Drain *)

\* A receive from q.c by the reader: the packet, if any, is returned to it.
ReaderRecv ==
    /\ q_c' = ChanRecv(q_c).rest
    /\ readLog' = IF ChanRecv(q_c).pkt = NoPkt THEN readLog
                  ELSE Append(readLog, ChanRecv(q_c).pkt)

\* linkEndpoint.Read / queue.Read: a non-blocking receive; nil when no
\* receive is ready.
Read ==
    /\ ~panicked
    /\ UNCHANGED <<ivars, vvars, xvars>>
    /\ pc[Reader] = "idle"
    /\ IF ChanCanRecv(q_c, q_c_closed)
       THEN ReaderRecv
       ELSE UNCHANGED <<q_c, readLog>>
    /\ rret' = <<>>
    /\ dstart' = <<>>
    /\ rpre' = FALSE
    /\ UNCHANGED <<q_c_closed, q_closed, q_mu, refs, panicked, pc, wvars, rctx,
                   dpkt, dcount, sendLog, counted, released, closeReturned,
                   afterClose, solo>>

\* linkEndpoint.ReadContext / queue.ReadContext is called with a context that
\* is live or already cancelled.
ReadContextCall(ctx) ==
    /\ ~panicked
    /\ UNCHANGED <<ivars, vvars, xvars>>
    /\ pc[Reader] = "idle"
    /\ rctx' = ctx
    /\ pc' = [pc EXCEPT ![Reader] = "readctx"]
    /\ rret' = <<>>
    /\ dstart' = <<>>
    /\ rpre' = (ctx = "done" /\ q_c # <<>>)
    /\ UNCHANGED <<qvars, wvars, dpkt, dcount, sendLog, counted, readLog,
                   released, closeReturned, afterClose, solo>>

\* The context of the blocked ReadContext is cancelled.
CtxCancel ==
    /\ ~panicked
    /\ UNCHANGED <<ivars, vvars, xvars>>
    /\ pc[Reader] = "readctx"
    /\ rctx = "live"
    /\ rctx' = "done"
    /\ UNCHANGED <<qvars, pc, wvars, rret, dvars, hvars>>

\* ReadContext: the case pkt := <-q.c of the select.
ReadContextRecv ==
    /\ ~panicked
    /\ UNCHANGED <<ivars, vvars, xvars>>
    /\ pc[Reader] = "readctx"
    /\ ChanCanRecv(q_c, q_c_closed)
    /\ ReaderRecv
    /\ rret' = <<ChanRecv(q_c).pkt>>
    /\ pc' = [pc EXCEPT ![Reader] = "idle"]
    /\ rctx' = "live"
    /\ UNCHANGED <<q_c_closed, q_closed, q_mu, refs, panicked, wvars,
                   dvars, sendLog, counted, released, closeReturned,
                   afterClose, solo, dstart, rpre>>

\* ReadContext: the case <-ctx.Done() of the select.
ReadContextDone ==
    /\ ~panicked
    /\ UNCHANGED <<ivars, vvars, xvars>>
    /\ pc[Reader] = "readctx"
    /\ rctx = "done"
    /\ rret' = <<NoPkt>>
    /\ pc' = [pc EXCEPT ![Reader] = "idle"]
    /\ rctx' = "live"
    /\ UNCHANGED <<qvars, wvars, dvars, hvars>>

\* linkEndpoint.Drain called by the consumer.
DrainCall ==
    /\ ~panicked
    /\ UNCHANGED <<ivars, vvars, xvars>>
    /\ pc[Reader] = "idle"
    /\ pc' = [pc EXCEPT ![Reader] = "drain"]
    /\ dcount' = [dcount EXCEPT ![Reader] = 0]
    /\ dstart' = IF \A t \in Writers \cup Closers : pc[t] = "idle"
                 THEN <<q_c>> ELSE <<>>
    /\ rret' = <<>>
    /\ rpre' = FALSE
    /\ UNCHANGED <<qvars, wvars, rctx, dpkt, sendLog, counted, readLog,
                   released, closeReturned, afterClose, solo>>

\* Drain: pkt = l.Read() and the loop test pkt != nil. On nil Drain returns c;
\* when Drain was called by Close, Close returns too.
DrainRead(t) ==
    /\ ~panicked
    /\ UNCHANGED <<ivars, vvars, xvars>>
    /\ pc[t] = "drain"
    /\ LET r == IF ChanCanRecv(q_c, q_c_closed) THEN ChanRecv(q_c)
                ELSE [pkt |-> NoPkt, rest |-> q_c]
       IN /\ q_c' = r.rest
          /\ IF DrainContinues(r.pkt)
             THEN /\ dpkt' = [dpkt EXCEPT ![t] = r.pkt]
                  /\ pc' = [pc EXCEPT ![t] = "release"]
                  /\ solo' = [w \in Writers |-> FALSE]
                  /\ UNCHANGED <<closeReturned, dcount, dstart>>
             ELSE /\ pc' = [pc EXCEPT ![t] = "idle"]
                  /\ closeReturned' = (closeReturned \/ t \in Closers)
                  /\ dcount' = [dcount EXCEPT ![t] = 0]
                  /\ dstart' = IF t = Reader THEN <<>> ELSE dstart
                  /\ UNCHANGED <<dpkt, solo>>
    /\ UNCHANGED <<q_c_closed, q_closed, q_mu, refs, panicked, wvars, rvars,
                   sendLog, counted, readLog, released, afterClose, rpre>>

\* Drain: pkt.DecRef() and c++.
DrainRelease(t) ==
    /\ ~panicked
    /\ UNCHANGED <<ivars, vvars, xvars>>
    /\ pc[t] = "release"
    /\ refs' = [refs EXCEPT ![dpkt[t]] = DecRef(@)]
    /\ released' = [released EXCEPT ![dpkt[t]] = @ + 1]
    /\ dcount' = [dcount EXCEPT ![t] = @ + 1]
    /\ dpkt' = [dpkt EXCEPT ![t] = NoPkt]
    /\ pc' = [pc EXCEPT ![t] = "drain"]
    /\ UNCHANGED <<q_c, q_c_closed, q_closed, q_mu, panicked, wvars, rvars,
                   sendLog, counted, readLog, closeReturned,
                   afterClose, solo, dstart, rpre>>

----------------------------------------------------------------------------
(* linkEndpoint.Close, one goroutine per closer *)

\* linkEndpoint.Close calls l.q.Close(): q.mu.Lock()
Close(t) ==
    /\ ~panicked
    /\ UNCHANGED <<ivars, vvars, xvars>>
    /\ pc[t] = "idle"
    /\ CanLock
    /\ q_mu' = [q_mu EXCEPT !.w = t]
    /\ pc' = [pc EXCEPT ![t] = "close"]
    /\ dstart' = <<>>
    /\ UNCHANGED <<q_c, q_c_closed, q_closed, refs, panicked, wvars, rvars,
                   dvars, sendLog, counted, readLog, released, closeReturned,
                   afterClose, solo, rpre>>

\* A DeliverNetworkPacket call on dispatcher d with buffer b. The history
\* keeps whether d was, at that moment, neither the dispatcher of the last
\* Attach that returned nor the one an Attach in progress has stored, and
\* whether the delivering call started after a Close had returned, and the
\* operation that made the call.
Delivery(d, b, after, op) ==
    [to |-> d, buf |-> b,
     stale |-> (d # lastAttached /\ d # dispatcher),
     afterClose |-> after,
     by |-> op]

\* gro.Flush(): every held buffer is delivered to gro.Dispatcher, oldest
\* first, and released. Calling the nil dispatcher panics.
GroFlush(after, op) ==
    IF gro_held = <<>>
    THEN /\ enqueued' = <<>>
         /\ epoch' = "clean"
         /\ UNCHANGED <<gro_held, delivered, irefs, panicked>>
    ELSE IF gro_dispatcher = NoDisp
    THEN /\ panicked' = TRUE
         /\ UNCHANGED <<gro_held, delivered, irefs, enqueued, epoch>>
    ELSE /\ delivered' = delivered \o
              [k \in 1..Len(gro_held) |->
                   Delivery(gro_dispatcher, gro_held[k], after, op)]
         /\ irefs' = [b \in Bufs |->
                        IF b \in Range(gro_held) THEN DecRef(irefs[b]) ELSE irefs[b]]
         /\ gro_held' = <<>>
         /\ enqueued' = <<>>
         /\ epoch' = "clean"
         /\ UNCHANGED panicked

\* queue.Close under the write lock: close(q.c) unless q.closed, then
\* q.closed = true and the deferred Unlock. Closing a closed channel panics.
\* Back in linkEndpoint.Close, l.gro.Flush() is made without linkEndpoint.mu
\* and l.Drain() is called. queue.Close touches the outbound queue only and
\* gro.Flush the inbound state only, so the two are taken in one step.
QueueClose(t) ==
    /\ ~panicked
    /\ pc[t] = "close"
    /\ IF ShouldCloseChan /\ q_c_closed
       THEN /\ panicked' = TRUE
            /\ UNCHANGED <<gro_held, delivered, irefs, enqueued, epoch>>
       ELSE GroFlush(FALSE, "Close")
    /\ q_c_closed' = (q_c_closed \/ ShouldCloseChan)
    /\ q_closed' = TRUE
    /\ q_mu' = [q_mu EXCEPT !.w = NoThread]
    /\ pc' = [pc EXCEPT ![t] = "drain"]
    /\ dcount' = [dcount EXCEPT ![t] = 0]
    /\ solo' = [w \in Writers |-> FALSE]
    /\ UNCHANGED <<q_c, refs, wvars, rvars, dpkt, sendLog, counted,
                   readLog, released, closeReturned, afterClose, dstart, rpre,
                   l_mu, dispatcher, gro_dispatcher, nextBuf, i_d, i_pkt, i_ok,
                   att, lastAttached, i_afterClose, mtu, linkAddr, vvars,
                   xvars>>

----------------------------------------------------------------------------
(* The inbound path: one goroutine calling injectInbound, enqueueGRO and   *)
(* flushGRO, one calling Attach, and IsAttached.                           *)

\* rxChecksumOffload returns a new buffer holding one reference.
NewBuf ==
    /\ nextBuf <= MaxInbound
    /\ i_pkt' = nextBuf
    /\ irefs' = [irefs EXCEPT ![nextBuf] = 1]
    /\ nextBuf' = nextBuf + 1

\* What no inbound operation touches: the outbound side, the MTU, the link
\* address and the state of a separate rxChecksumOffload call.
outside == <<qvars, wvars, rvars, dvars, hvars, mtu, linkAddr, vvars, xvars>>

\* injectInbound(p): d := l.dispatcher, read under the read lock.
InjectInbound ==
    /\ ~panicked
    /\ pc[Inbound] = "idle"
    /\ LCanRLock
    /\ i_d' = dispatcher
    /\ i_afterClose' = closeReturned
    /\ pc' = [pc EXCEPT ![Inbound] = "validate"]
    /\ UNCHANGED <<outside, l_mu, dispatcher, gro_dispatcher, gro_held, irefs,
                   nextBuf, i_pkt, i_ok, att, delivered, lastAttached,
                   enqueued, epoch>>

\* Faulty variant of InjectDelivers: the verdict of rxChecksumOffload is
\* not tested.
InjectDeliversUnchecked(d, ok) == d # NoDisp

\* injectInbound: the tests d != nil and pkt != nil that guard the delivery,
\* ok standing for rxChecksumOffload(p) != nil.
InjectDelivers(d, ok) == d # NoDisp /\ ok

\* injectInbound: with d nil, or with rxChecksumOffload(p) nil, the call
\* returns; otherwise pkt is the buffer rxChecksumOffload made.
InjectValidate(ok) ==
    /\ ~panicked
    /\ pc[Inbound] = "validate"
    /\ i_ok' = ok
    /\ IF InjectDelivers(i_d, ok)
       THEN /\ NewBuf
            /\ pc' = [pc EXCEPT ![Inbound] = "deliver"]
            /\ UNCHANGED <<i_d, i_afterClose>>
       ELSE /\ pc' = [pc EXCEPT ![Inbound] = "idle"]
            /\ i_d' = NoDisp
            /\ i_afterClose' = FALSE
            /\ UNCHANGED <<i_pkt, irefs, nextBuf>>
    /\ UNCHANGED <<outside, l_mu, dispatcher, gro_dispatcher, gro_held, att,
                   delivered, lastAttached, enqueued, epoch>>

\* injectInbound: d.DeliverNetworkPacket(pkt.NetworkProtocolNumber, pkt).
InjectDeliver ==
    /\ ~panicked
    /\ pc[Inbound] = "deliver"
    /\ delivered' = Append(delivered, Delivery(i_d, i_pkt, i_afterClose,
                                           "injectInbound"))
    /\ pc' = [pc EXCEPT ![Inbound] = "decref"]
    /\ UNCHANGED <<outside, l_mu, dispatcher, gro_dispatcher, gro_held, irefs,
                   nextBuf, i_d, i_pkt, i_ok, att, lastAttached, i_afterClose,
                   enqueued, epoch>>

\* injectInbound: pkt.DecRef() and the return.
InjectDecRef ==
    /\ ~panicked
    /\ pc[Inbound] = "decref"
    /\ irefs' = [irefs EXCEPT ![i_pkt] = DecRef(@)]
    /\ pc' = [pc EXCEPT ![Inbound] = "idle"]
    /\ i_d' = NoDisp
    /\ i_pkt' = NoPkt
    /\ i_afterClose' = FALSE
    /\ UNCHANGED <<outside, l_mu, dispatcher, gro_dispatcher, gro_held,
                   nextBuf, i_ok, att, delivered, lastAttached, enqueued,
                   epoch>>

\* Faulty variant of EnqueueForwards: the packet goes to the batcher whether
\* or not a dispatcher is attached.
EnqueueForwardsAlways == TRUE

\* enqueueGRO: the test l.gro.Dispatcher != nil.
EnqueueForwards == gro_dispatcher # NoDisp

\* enqueueGRO(p): the read lock is taken and held to the end of the call;
\* with l.gro.Dispatcher nil the call goes to its return.
EnqueueGRO ==
    /\ ~panicked
    /\ pc[Inbound] = "idle"
    /\ LCanRLock
    /\ l_mu' = [l_mu EXCEPT !.r = @ \cup {Inbound}]
    /\ i_afterClose' = closeReturned
    /\ epoch' = IF epoch = "clean" THEN "used" ELSE epoch
    /\ pc' = [pc EXCEPT ![Inbound] =
                IF EnqueueForwards THEN "grovalidate" ELSE "groreturn"]
    /\ UNCHANGED <<outside, dispatcher, gro_dispatcher, gro_held, irefs,
                   nextBuf, i_d, i_pkt, i_ok, att, delivered, lastAttached,
                   enqueued>>

\* Faulty variant of EnqueueAccepts: the verdict of rxChecksumOffload is not
\* tested.
EnqueueAcceptsAll(ok) == TRUE

\* enqueueGRO: the test pkt != nil, ok standing for rxChecksumOffload(p) != nil.
EnqueueAccepts(ok) == ok

\* enqueueGRO: pkt := rxChecksumOffload(p); with pkt nil the call goes to its
\* return.
EnqueueValidate(ok) ==
    /\ ~panicked
    /\ pc[Inbound] = "grovalidate"
    /\ i_ok' = ok
    /\ IF EnqueueAccepts(ok)
       THEN /\ NewBuf
            /\ enqueued' = Append(enqueued, nextBuf)
            /\ pc' = [pc EXCEPT ![Inbound] = "groenqueue"]
       ELSE /\ pc' = [pc EXCEPT ![Inbound] = "groreturn"]
            /\ UNCHANGED <<i_pkt, irefs, nextBuf, enqueued>>
    /\ UNCHANGED <<outside, l_mu, dispatcher, gro_dispatcher, gro_held, i_d,
                   att, delivered, lastAttached, i_afterClose, epoch>>

\* enqueueGRO: l.gro.Enqueue(pkt). The batcher either keeps the buffer,
\* taking a reference, or hands it to gro.Dispatcher at once (a segment it
\* does not coalesce).
GroEnqueue(hold) ==
    /\ ~panicked
    /\ pc[Inbound] = "groenqueue"
    /\ IF hold
       THEN /\ gro_held' = Append(gro_held, i_pkt)
            /\ irefs' = [irefs EXCEPT ![i_pkt] = IncRef(@)]
            /\ enqAt' = [enqAt EXCEPT ![i_pkt] = gro_dispatcher]
            /\ UNCHANGED delivered
       ELSE /\ delivered' = Append(delivered,
                                   Delivery(gro_dispatcher, i_pkt, i_afterClose,
                                            "enqueueGRO"))
            /\ UNCHANGED <<gro_held, irefs, enqAt>>
    /\ pc' = [pc EXCEPT ![Inbound] = "grodecref"]
    /\ UNCHANGED <<qvars, wvars, rvars, dvars, hvars, mtu, linkAddr, vvars,
                   yvars, l_mu, dispatcher, gro_dispatcher, nextBuf, i_d,
                   i_pkt, i_ok, att, lastAttached, i_afterClose, enqueued,
                   epoch>>

\* enqueueGRO: pkt.DecRef(), the deferred RUnlock and the return.
EnqueueGRODecRef ==
    /\ ~panicked
    /\ pc[Inbound] = "grodecref"
    /\ irefs' = [irefs EXCEPT ![i_pkt] = DecRef(@)]
    /\ l_mu' = [l_mu EXCEPT !.r = @ \ {Inbound}]
    /\ pc' = [pc EXCEPT ![Inbound] = "idle"]
    /\ i_pkt' = NoPkt
    /\ i_afterClose' = FALSE
    /\ UNCHANGED <<outside, dispatcher, gro_dispatcher, gro_held, nextBuf,
                   i_d, i_ok, att, delivered, lastAttached, enqueued, epoch>>

\* enqueueGRO: the deferred RUnlock and the return of a call that did not
\* reach l.gro.Enqueue.
EnqueueGROReturn ==
    /\ ~panicked
    /\ pc[Inbound] = "groreturn"
    /\ l_mu' = [l_mu EXCEPT !.r = @ \ {Inbound}]
    /\ pc' = [pc EXCEPT ![Inbound] = "idle"]
    /\ i_afterClose' = FALSE
    /\ UNCHANGED <<outside, dispatcher, gro_dispatcher, gro_held, irefs,
                   nextBuf, i_d, i_pkt, i_ok, att, delivered, lastAttached,
                   enqueued, epoch>>

\* Faulty variants of FlushForwards: the batcher is never flushed, or is
\* flushed whether or not a dispatcher is attached.
FlushForwardsNever == FALSE
FlushForwardsAlways == TRUE

\* flushGRO: the test l.gro.Dispatcher != nil.
FlushForwards == gro_dispatcher # NoDisp

\* flushGRO(): under the read lock, l.gro.Flush() unless l.gro.Dispatcher is
\* nil.
FlushGRO ==
    /\ ~panicked
    /\ pc[Inbound] = "idle"
    /\ LCanRLock
    /\ l_mu' = [l_mu EXCEPT !.r = @ \cup {Inbound}]
    /\ IF FlushForwards
       THEN GroFlush(closeReturned, "flushGRO")
       ELSE UNCHANGED <<gro_held, delivered, irefs, panicked, enqueued, epoch>>
    /\ pc' = [pc EXCEPT ![Inbound] = "flushreturn"]
    /\ UNCHANGED <<q_c, q_c_closed, q_closed, q_mu, refs, wvars, rvars,
                   dvars, hvars, mtu, linkAddr, vvars, xvars, dispatcher,
                   gro_dispatcher, nextBuf, i_d, i_pkt, i_ok, att,
                   lastAttached, i_afterClose>>

\* flushGRO: the deferred RUnlock and the return.
FlushGROReturn ==
    /\ ~panicked
    /\ pc[Inbound] = "flushreturn"
    /\ l_mu' = [l_mu EXCEPT !.r = @ \ {Inbound}]
    /\ pc' = [pc EXCEPT ![Inbound] = "idle"]
    /\ UNCHANGED <<outside, dispatcher, gro_dispatcher, gro_held, irefs,
                   nextBuf, i_d, i_pkt, i_ok, att, delivered, lastAttached,
                   i_afterClose, enqueued, epoch>>

\* Attach(d): l.mu.Lock() and l.dispatcher = d.
Attach(d) ==
    /\ ~panicked
    /\ pc[Attacher] = "idle"
    /\ LCanLock
    /\ l_mu' = [l_mu EXCEPT !.w = Attacher]
    /\ dispatcher' = d
    /\ epoch' = IF epoch = "clean" THEN "clean" ELSE "mixed"
    /\ pc' = [pc EXCEPT ![Attacher] = "attachgro"]
    /\ UNCHANGED <<outside, gro_dispatcher, gro_held, irefs, nextBuf, i_d,
                   i_pkt, i_ok, att, delivered, lastAttached, i_afterClose,
                   enqueued>>

\* Faulty variant of AttachedDispatcher: the batcher keeps its dispatcher.
AttachedDispatcherStale == gro_dispatcher

\* Attach: the dispatcher given to the call, which l.dispatcher holds by now.
AttachedDispatcher == dispatcher

\* Attach: l.gro.Dispatcher = dispatcher, still under the write lock.
AttachGRO ==
    /\ ~panicked
    /\ pc[Attacher] = "attachgro"
    /\ gro_dispatcher' = AttachedDispatcher
    /\ pc' = [pc EXCEPT ![Attacher] = "attach"]
    /\ UNCHANGED <<outside, l_mu, dispatcher, gro_held, irefs, nextBuf, i_d,
                   i_pkt, i_ok, att, delivered, lastAttached, i_afterClose,
                   enqueued, epoch>>

\* Attach: the deferred Unlock and the return.
AttachUnlock ==
    /\ ~panicked
    /\ pc[Attacher] = "attach"
    /\ l_mu' = [l_mu EXCEPT !.w = NoThread]
    /\ lastAttached' = dispatcher
    /\ pc' = [pc EXCEPT ![Attacher] = "idle"]
    /\ UNCHANGED <<outside, dispatcher, gro_dispatcher, gro_held, irefs,
                   nextBuf, i_d, i_pkt, i_ok, att, delivered, i_afterClose,
                   enqueued, epoch>>

\* What the accessor calls leave alone: the outbound side, the goroutines of
\* the inbound path, the batcher, the state of a separate rxChecksumOffload
\* call, the preference and the TSRecorder.
aside == <<qvars, pc, wvars, rvars, dvars, hvars, vvars, gro_held, irefs,
           nextBuf, i_d, i_pkt, i_ok, delivered, lastAttached, i_afterClose,
           enqueued, epoch, enqAt, pvars, tvars>>

\* IsAttached(): l.mu.RLock().
IsAttached(t) ==
    /\ ~panicked
    /\ a_pc[t] = "idle"
    /\ LCanRLock
    /\ l_mu' = [l_mu EXCEPT !.r = @ \cup {t}]
    /\ a_pc' = [a_pc EXCEPT ![t] = "isattached"]
    /\ UNCHANGED <<aside, dispatcher, gro_dispatcher, att, mtu, linkAddr,
                   a_ret, mtuDone>>

\* IsAttached: return l.dispatcher != nil and the deferred RUnlock.
IsAttachedReturn(t) ==
    /\ ~panicked
    /\ a_pc[t] = "isattached"
    /\ att' = <<dispatcher # NoDisp>>
    /\ l_mu' = [l_mu EXCEPT !.r = @ \ {t}]
    /\ a_pc' = [a_pc EXCEPT ![t] = "idle"]
    /\ UNCHANGED <<aside, dispatcher, gro_dispatcher, mtu, linkAddr, a_ret,
                   mtuDone>>

\* MTU(): l.mu.RLock().
MTU(t) ==
    /\ ~panicked
    /\ a_pc[t] = "idle"
    /\ LCanRLock
    /\ l_mu' = [l_mu EXCEPT !.r = @ \cup {t}]
    /\ a_pc' = [a_pc EXCEPT ![t] = "mtu"]
    /\ UNCHANGED <<aside, dispatcher, gro_dispatcher, att, mtu, linkAddr,
                   a_ret, mtuDone>>

\* MTU: return l.mtu and the deferred RUnlock.
MTUReturn(t) ==
    /\ ~panicked
    /\ a_pc[t] = "mtu"
    /\ a_ret' = [a_ret EXCEPT ![t] = <<"MTU", mtu>>]
    /\ l_mu' = [l_mu EXCEPT !.r = @ \ {t}]
    /\ a_pc' = [a_pc EXCEPT ![t] = "idle"]
    /\ UNCHANGED <<aside, dispatcher, gro_dispatcher, att, mtu, linkAddr,
                   mtuDone>>

\* SetMTU(m): l.mu.Lock() and l.mtu = m.
SetMTU(t, m) ==
    /\ ~panicked
    /\ a_pc[t] = "idle"
    /\ LCanLock
    /\ l_mu' = [l_mu EXCEPT !.w = t]
    /\ mtu' = m
    /\ a_pc' = [a_pc EXCEPT ![t] = "setmtu"]
    /\ UNCHANGED <<aside, dispatcher, gro_dispatcher, att, linkAddr, a_ret,
                   mtuDone>>

\* SetMTU: the deferred Unlock and the return.
SetMTUUnlock(t) ==
    /\ ~panicked
    /\ a_pc[t] = "setmtu"
    /\ l_mu' = [l_mu EXCEPT !.w = NoThread]
    /\ mtuDone' = mtu
    /\ a_pc' = [a_pc EXCEPT ![t] = "idle"]
    /\ UNCHANGED <<aside, dispatcher, gro_dispatcher, att, mtu, linkAddr,
                   a_ret>>

\* LinkAddress(): l.mu.RLock().
LinkAddress(t) ==
    /\ ~panicked
    /\ a_pc[t] = "idle"
    /\ LCanRLock
    /\ l_mu' = [l_mu EXCEPT !.r = @ \cup {t}]
    /\ a_pc' = [a_pc EXCEPT ![t] = "linkaddress"]
    /\ UNCHANGED <<aside, dispatcher, gro_dispatcher, att, mtu, linkAddr,
                   a_ret, mtuDone>>

\* LinkAddress: return l.linkAddr and the deferred RUnlock.
LinkAddressReturn(t) ==
    /\ ~panicked
    /\ a_pc[t] = "linkaddress"
    /\ a_ret' = [a_ret EXCEPT ![t] = <<"LinkAddress", linkAddr>>]
    /\ l_mu' = [l_mu EXCEPT !.r = @ \ {t}]
    /\ a_pc' = [a_pc EXCEPT ![t] = "idle"]
    /\ UNCHANGED <<aside, dispatcher, gro_dispatcher, att, mtu, linkAddr,
                   mtuDone>>

\* SetLinkAddress(addr): l.mu.Lock() and l.linkAddr = addr.
SetLinkAddress(t, addr) ==
    /\ ~panicked
    /\ a_pc[t] = "idle"
    /\ LCanLock
    /\ l_mu' = [l_mu EXCEPT !.w = t]
    /\ linkAddr' = addr
    /\ a_pc' = [a_pc EXCEPT ![t] = "setlinkaddress"]
    /\ UNCHANGED <<aside, dispatcher, gro_dispatcher, att, mtu, a_ret,
                   mtuDone>>

\* SetLinkAddress: the deferred Unlock and the return.
SetLinkAddressUnlock(t) ==
    /\ ~panicked
    /\ a_pc[t] = "setlinkaddress"
    /\ l_mu' = [l_mu EXCEPT !.w = NoThread]
    /\ a_pc' = [a_pc EXCEPT ![t] = "idle"]
    /\ UNCHANGED <<aside, dispatcher, gro_dispatcher, att, mtu, linkAddr,
                   a_ret, mtuDone>>

----------------------------------------------------------------------------
(* rxChecksumOffload, and a caller that owns the buffer of the packet.Parsed *)
(* it passes. Bytes are 0..255; a buffer is the sequence of its bytes.      *)

\* ipproto.TCP and ipproto.UDP.
TCP == 6
UDP == 17
\* header.IPv4ProtocolNumber and header.IPv6ProtocolNumber.
IPv4ProtocolNumber == 2048
IPv6ProtocolNumber == 34525
\* The sizes rxChecksumOffload compares with: the smallest and the largest
\* IPv4 header and the IPv6 header.
IPv4MinimumSize == 20
IPv4MaximumHeaderSize == 60
IPv6MinimumSize == 40

\* tun.Checksum before the fold: initial plus the big-endian 16-bit words of
\* b from index i on, an odd last byte being the high byte of its word.
RECURSIVE checksumNoFold(_, _, _)
checksumNoFold(b, i, ac) ==
    IF i > Len(b) THEN ac
    ELSE IF i = Len(b) THEN ac + b[i] * 256
    ELSE checksumNoFold(b, i + 2, ac + b[i] * 256 + b[i + 1])

\* One end-around carry.
Fold(ac) == (ac \div 65536) + (ac % 65536)

\* tun.Checksum(b, initial): the 16-bit one's-complement sum, not inverted.
Checksum(b, initial) ==
    Fold(Fold(Fold(Fold(checksumNoFold(b, 1, initial))))) % 65536

\* tun.PseudoHeaderChecksum(protocol, srcAddr, dstAddr, totalLen).
PseudoHeaderChecksum(protocol, srcAddr, dstAddr, totalLen) ==
    Checksum(<<totalLen \div 256, totalLen % 256>>,
             Checksum(<<0, protocol>>,
                      Checksum(dstAddr, Checksum(srcAddr, 0))))

\* ^x for a uint16 x.
Complement16(x) == 65535 - x

\* Faulty variant of BelowMinimum: the length is not compared.
BelowMinimumNever(len, min) == FALSE

\* rxChecksumOffload: len(buf) < 20 and len(buf) < 40.
BelowMinimum(len, min) == len < min

\* Faulty variant of BadHeaderLength: the header length is not compared with
\* the length of the buffer.
BadHeaderLengthAnyBuffer(csumStart, len) ==
    csumStart < IPv4MinimumSize \/ csumStart > IPv4MaximumHeaderSize

\* rxChecksumOffload: csumStart < 20 || csumStart > 60 || len(buf) < csumStart.
BadHeaderLength(csumStart, len) ==
    \/ csumStart < IPv4MinimumSize
    \/ csumStart > IPv4MaximumHeaderSize
    \/ len < csumStart

\* Faulty variant of HeaderChecksumBad: only the low byte of the sum is
\* looked at.
HeaderChecksumBadLowByte(sum) == Complement16(sum) % 256 # 0

\* rxChecksumOffload: ^tun.Checksum(buf[:csumStart], 0) != 0.
HeaderChecksumBad(sum) == Complement16(sum) # 0

\* Faulty variant of csumRequired: UDP is left out.
csumRequiredTCPOnly(proto) == proto = TCP

\* rxChecksumOffload: p.IPProto == ipproto.TCP || p.IPProto == ipproto.UDP.
csumRequired(proto) == proto = TCP \/ proto = UDP

\* Faulty variant of Clone: the payload is the caller's buffer itself.
CloneAliases(buf) == [alias |-> TRUE, data |-> <<>>]

\* bytes.Clone(buf): a payload with bytes of its own.
Clone(buf) == [alias |-> FALSE, data |-> buf]

\* What rxChecksumOffload returns: nil, or the packetBuf it made; "panic"
\* when an index or slice bound is outside the buffer. csumOver is the
\* number of leading bytes the IPv4 header checksum was computed over, 0 when
\* it was not computed.
Result(k, pnum, payload, over) ==
    [kind |-> k, NetworkProtocolNumber |-> pnum, Payload |-> payload,
     RXChecksumValidated |-> (k = "pkt"), csumOver |-> over]

NoPayload == [alias |-> FALSE, data |-> <<>>]

\* rxChecksumOffload from the test of p.IPProto on.
TransportChecksum(p, csumStart, pn, over) ==
    LET buf == p.b
        lenForPseudo == Len(buf) - csumStart
    IN  IF ~csumRequired(p.IPProto)
        THEN Result("pkt", pn, Clone(buf), over)
        ELSE IF csumStart > Len(buf)
        THEN Result("panic", 0, NoPayload, over)
        ELSE LET csum == Checksum(SubSeq(buf, csumStart + 1, Len(buf)),
                                  PseudoHeaderChecksum(p.IPProto % 256, p.Src,
                                                       p.Dst,
                                                       lenForPseudo % 65536))
             IN  IF Complement16(csum) # 0
                 THEN Result("nil", 0, NoPayload, over)
                 ELSE Result("pkt", pn, Clone(buf), over)

\* rxChecksumOffload(p).
rxChecksumOffload(p) ==
    LET buf == p.b IN
    IF p.IPVersion = 4
    THEN IF BelowMinimum(Len(buf), IPv4MinimumSize)
         THEN Result("nil", 0, NoPayload, 0)
         ELSE IF Len(buf) < 1
         THEN Result("panic", 0, NoPayload, 0)
         ELSE LET csumStart == ((buf[1] % 16) * 4) % 256 IN
              IF BadHeaderLength(csumStart, Len(buf))
              THEN Result("nil", 0, NoPayload, 0)
              ELSE IF csumStart > Len(buf)
              THEN Result("panic", 0, NoPayload, 0)
              ELSE IF HeaderChecksumBad(Checksum(SubSeq(buf, 1, csumStart), 0))
              THEN Result("nil", 0, NoPayload, csumStart)
              ELSE TransportChecksum(p, csumStart, IPv4ProtocolNumber,
                                     csumStart)
    ELSE IF p.IPVersion = 6
    THEN IF BelowMinimum(Len(buf), IPv6MinimumSize)
         THEN Result("nil", 0, NoPayload, 0)
         ELSE TransportChecksum(p, IPv6MinimumSize, IPv6ProtocolNumber, 0)
    ELSE TransportChecksum(p, 0, 0, 0)

\* The bytes of the payload of a returned packetBuf, as they are now.
PayloadBytes(r) == IF r.Payload.alias THEN v_p.b ELSE r.Payload.data

\* The packets handed to rxChecksumOffload. A buffer of len bytes starts with
\* the version and header-length nibbles, carries proto where its IP version
\* has the protocol, and is filled with a fixed pattern; the checksum fields
\* are then set right, or left wrong.
MaxLen == 64
\* TCP, UDP and, standing for the other protocols, ICMPv4.
Protos == {TCP, UDP, 1}

Fill(i) == (i * 37 + 11) % 256

\* b with the 16-bit word w stored big-endian at byte offset off.
SetWord(b, off, w) ==
    [b EXCEPT ![off + 1] = w \div 256, ![off + 2] = w % 256]

\* x with bit k flipped.
FlipBit(x, k) ==
    IF (x \div (2 ^ k)) % 2 = 1 THEN x - 2 ^ k ELSE x + 2 ^ k

\* b with a correct IPv4 header checksum over its first hl bytes.
WithHeaderChecksum(b, hl) ==
    LET z == SetWord(b, 10, 0) IN
    SetWord(z, 10, Complement16(Checksum(SubSeq(z, 1, hl), 0)))

\* b with a correct TCP or UDP checksum over the bytes from offset start on.
WithTransportChecksum(b, start, proto, src, dst) ==
    LET off == start + (IF proto = UDP THEN 6 ELSE 16) IN
    IF proto \notin {TCP, UDP} \/ Len(b) < off + 2
    THEN b
    ELSE LET z == SetWord(b, off, 0)
             sum == Checksum(SubSeq(z, start + 1, Len(z)),
                             PseudoHeaderChecksum(proto, src, dst,
                                                  Len(z) - start))
         IN  SetWord(z, off, Complement16(sum))

\* An IPv4 packet.Parsed: ihl is the header-length nibble, hdrOK and
\* transportOK say which checksums are set right.
Parsed4(ihl, len, proto, hdrOK, transportOK) ==
    LET raw == [i \in 1..len |-> IF i = 1 THEN 64 + ihl
                                 ELSE IF i = 10 THEN proto
                                 ELSE Fill(i)]
        hl == 4 * ihl
        hdr == IF hdrOK /\ hl >= IPv4MinimumSize /\ len >= hl
               THEN WithHeaderChecksum(raw, hl)
               ELSE raw
        src == IF len >= 20 THEN SubSeq(raw, 13, 16) ELSE <<>>
        dst == IF len >= 20 THEN SubSeq(raw, 17, 20) ELSE <<>>
    IN  [IPVersion |-> 4, IPProto |-> proto, Src |-> src, Dst |-> dst,
         b |-> IF transportOK /\ hl >= IPv4MinimumSize
               THEN WithTransportChecksum(hdr, hl, proto, src, dst)
               ELSE hdr]

\* An IPv6 packet.Parsed.
Parsed6(len, proto, transportOK) ==
    LET raw == [i \in 1..len |-> IF i = 1 THEN 96
                                 ELSE IF i = 7 THEN proto
                                 ELSE Fill(i)]
        src == IF len >= 40 THEN SubSeq(raw, 9, 24) ELSE <<>>
        dst == IF len >= 40 THEN SubSeq(raw, 25, 40) ELSE <<>>
    IN  [IPVersion |-> 6, IPProto |-> proto, Src |-> src, Dst |-> dst,
         b |-> IF transportOK
               THEN WithTransportChecksum(raw, IPv6MinimumSize, proto, src, dst)
               ELSE raw]

\* A packet.Parsed of a packet that is neither IPv4 nor IPv6: IPVersion 0 and
\* an unknown protocol.
Parsed0(len) ==
    [IPVersion |-> 0, IPProto |-> 0, Src |-> <<>>, Dst |-> <<>>,
     b |-> [i \in 1..len |-> Fill(i)]]

Parseds ==
    {Parsed4(ihl, len, proto, hdrOK, transportOK) :
        ihl \in 0..15, len \in 0..MaxLen, proto \in Protos,
        hdrOK \in BOOLEAN, transportOK \in BOOLEAN}
    \cup {Parsed6(len, proto, transportOK) :
            len \in 0..MaxLen, proto \in Protos, transportOK \in BOOLEAN}
    \cup {Parsed0(len) : len \in {0, 1, MaxLen}}

\* The packets the inbound goroutine receives: an IPv4/UDP packet of 28
\* bytes with both checksums right, and the same with a wrong UDP checksum.
InboundPackets ==
    {Parsed4(5, 28, UDP, TRUE, transportOK) : transportOK \in BOOLEAN}

\* Whether rxChecksumOffload(p) != nil, for the packets the inbound goroutine
\* receives.
Verdicts == {rxChecksumOffload(p).kind = "pkt" : p \in InboundPackets}

\* Everything of the endpoint; a separate rxChecksumOffload call touches
\* none of it.
evars == <<qvars, pc, wvars, rvars, dvars, hvars, ivars, xvars>>

\* The caller parses a packet into a packet.Parsed.
Parse(p) ==
    /\ v_pc = "idle"
    /\ v_p' = p
    /\ v_pc' = "parsed"
    /\ UNCHANGED <<evars, v_called, v_ret>>

\* The call rxChecksumOffload(p), on a parsed packet or on one whose header
\* checksum the caller has changed since the last call.
Validate ==
    /\ v_pc \in {"parsed", "flipped"}
    /\ v_ret' = rxChecksumOffload(v_p)
    /\ v_called' = v_p.b
    /\ v_pc' = IF v_pc = "parsed" THEN "returned" ELSE "revalidated"
    /\ UNCHANGED <<evars, v_p>>

\* After an IPv4 packet was accepted, the caller flips bit k of the header
\* checksum field of its buffer.
FlipHeaderChecksum(k) ==
    /\ v_pc = "returned"
    /\ v_ret.kind = "pkt"
    /\ v_p.IPVersion = 4
    /\ v_p' = [v_p EXCEPT !.b =
                 SetWord(@, 10, FlipBit(@[11] * 256 + @[12], k))]
    /\ v_pc' = "flipped"
    /\ UNCHANGED <<evars, v_called, v_ret>>

\* After the call the caller, which owns the buffer, reuses it: byte i is
\* overwritten.
CallerWrites(i) ==
    /\ v_pc = "returned"
    /\ i \in 1..Len(v_p.b)
    /\ v_p' = [v_p EXCEPT !.b[i] = (@ + 1) % 256]
    /\ v_pc' = "reused"
    /\ UNCHANGED <<evars, v_called, v_ret>>

NextValidate ==
    \/ \E p \in Parseds : Parse(p)
    \/ Validate
    \/ \E k \in 0..15 : FlipHeaderChecksum(k)
    \/ \E i \in {1, Len(v_p.b)} : CallerWrites(i)

SpecValidate == Init /\ [][NextValidate]_vars

----------------------------------------------------------------------------
(* prefs.preference[T]: one preference and the calls made on it *)

\* What a call on the preference leaves alone: the link endpoint.
pside == <<qvars, pc, wvars, rvars, dvars, hvars, ivars, vvars, avars, enqAt,
           tvars>>

\* A call on the preference has returned.
Called(op, arg, err) ==
    /\ p_n < MaxCalls
    /\ p_n' = p_n + 1
    /\ p_ret' = [op |-> op, arg |-> arg, err |-> err]
    /\ UNCHANGED pside

\* Faulty variant of ModifyErr: the read-only flag is tested first.
ModifyErrReadOnlyFirst(md) ==
    IF md.ReadOnly THEN ErrReadOnly
    ELSE IF md.Managed THEN ErrManaged
    ELSE ErrNil

\* The switch of SetValue and of ClearValue on p.s.Metadata: the error the
\* call returns, nil when it goes on to modify the value.
ModifyErr(md) ==
    IF md.Managed THEN ErrManaged
    ELSE IF md.ReadOnly THEN ErrReadOnly
    ELSE ErrNil

\* preference.SetValue(val)
SetValue(val) ==
    /\ p_s' = IF ModifyErr(p_s) = ErrNil
              THEN [p_s EXCEPT !.Value = <<val>>]
              ELSE p_s
    /\ Called("SetValue", val, ModifyErr(p_s))

\* preference.ClearValue()
ClearValue ==
    /\ p_s' = IF ModifyErr(p_s) = ErrNil
              THEN [p_s EXCEPT !.Value = <<>>]
              ELSE p_s
    /\ Called("ClearValue", ZeroValue, ModifyErr(p_s))

\* preference.SetDefaultValue(def)
SetDefaultValue(def) ==
    /\ p_s' = [p_s EXCEPT !.Default = def]
    /\ Called("SetDefaultValue", def, ErrNil)

\* preference.Managed()
Managed == p_s.Managed

\* preference.SetManagedValue(val)
SetManagedValue(val) ==
    /\ p_s' = [p_s EXCEPT !.Value = <<val>>, !.Managed = TRUE]
    /\ Called("SetManagedValue", val, ErrNil)

\* preference.ClearManaged()
ClearManaged ==
    /\ p_s' = [p_s EXCEPT !.Managed = FALSE]
    /\ Called("ClearManaged", ZeroValue, ErrNil)

\* Faulty variant of ReadOnly: the managed flag is not looked at.
ReadOnlyFlagOnly == p_s.ReadOnly

\* preference.ReadOnly()
ReadOnly == p_s.ReadOnly \/ p_s.Managed

\* preference.SetReadOnly(readonly)
SetReadOnly(readonly) ==
    /\ p_s' = [p_s EXCEPT !.ReadOnly = readonly]
    /\ Called("SetReadOnly", ZeroValue, ErrNil)

NextPrefs ==
    \/ \E val \in Values : SetValue(val)
    \/ ClearValue
    \/ \E def \in Values : SetDefaultValue(def)
    \/ \E val \in Values : SetManagedValue(val)
    \/ ClearManaged
    \/ \E readonly \in BOOLEAN : SetReadOnly(readonly)

SpecPrefs == Init /\ [][NextPrefs]_vars

----------------------------------------------------------------------------
(* TSRecorderReconciler.Reconcile on one TSRecorder. What the API server,   *)
(* ssr.Cleanup and ssr.DeviceInfo answer is an input of the call.           *)

\* What a Reconcile call leaves alone: the link endpoint and the preference.
tside == <<qvars, pc, wvars, rvars, dvars, hvars, ivars, vvars, avars, enqAt,
           pvars>>

\* The answers a Reconcile call can get: the error of r.Get (of an object
\* that exists), the result of ssr.Cleanup, the errors of r.Update, of
\* createOrUpdate or ssr.DeviceInfo and of r.Client.Status().Update, and the
\* hostname ssr.DeviceInfo reports.
Answers ==
    [get : {ErrNil, ErrSome}, done : BOOLEAN, cleanup : {ErrNil, ErrSome},
     update : {ErrNil, ErrSome}, provision : {ErrNil, ErrSome},
     tsHost : {"", "rec"}, status : {ErrNil, ErrSome}]

\* errors.Wrap(err, message) of github.com/pkg/errors: nil when err is nil.
Wrap(err, message) == IF err = ErrNil THEN ErrNil ELSE ErrWrapped

\* What a Reconcile call returns and did: the object it leaves on the API
\* server, its reconcile.Result and error, the result of its maybeCleanup
\* call, and the outcome of its r.Update and Status().Update calls.
Outcome(obj, requeue, err, cleanup, update, statusUpdate, path) ==
    [obj |-> obj,
     rec |-> [requeue |-> requeue, err |-> err, cleanup |-> cleanup,
              update |-> update, statusUpdate |-> statusUpdate,
              path |-> path]]

\* maybeCleanup: [done, err] from the answer of ssr.Cleanup.
maybeCleanup(a) ==
    IF a.cleanup # ErrNil THEN [done |-> FALSE, err |-> ErrWrapped]
    ELSE IF ~a.done THEN [done |-> FALSE, err |-> ErrNil]
    ELSE [done |-> TRUE, err |-> ErrNil]

\* Faulty variant of CleanupPending: the finalizer is removed whether or not
\* the cleanup is done.
CleanupPendingNever(done) == FALSE

\* Reconcile: the test !done on the result of maybeCleanup.
CleanupPending(done) == ~done

\* The TSRecorder after its finalizer was removed by r.Update: the API server
\* deletes an object marked for deletion once it has no finalizer left.
WithoutFinalizer(obj) ==
    IF obj.others THEN [obj EXCEPT !.finalizer = FALSE] ELSE NoTSRecorder

\* Reconcile of a TSRecorder marked for deletion.
ReconcileDeleted(obj, a) ==
    IF ~obj.finalizer
    THEN Outcome(obj, FALSE, ErrNil, "none", "none", "none", "no finalizer")
    ELSE LET c == maybeCleanup(a)
             reported == IF c.done THEN "done" ELSE "not done"
         IN
         IF c.err # ErrNil
         THEN Outcome(obj, FALSE, c.err, "error", "none", "none", "cleanup")
         ELSE IF CleanupPending(c.done)
         THEN Outcome(obj, TRUE, ErrNil, reported, "none", "none", "cleanup")
         ELSE IF a.update # ErrNil
         THEN Outcome(obj, FALSE, a.update, reported, "failed", "none",
                      "cleanup")
         ELSE Outcome(WithoutFinalizer(obj), FALSE, ErrNil, reported, "ok",
                      "none", "cleanup")

\* setStatus: the TSRecorderReady condition is set on tsr; when the status
\* differs from the one Reconcile read, r.Client.Status().Update is called
\* and its error is wrapped into err, the named result of Reconcile, which
\* is returned.
setStatus(obj, tsrStatus, ready, reason, err, a, update, path) ==
    LET new == [tsrStatus EXCEPT !.Ready = ready, !.Reason = reason] IN
    IF new = obj.status
    THEN Outcome(obj, FALSE, err, "none", update, "none", path)
    ELSE IF a.status # ErrNil
    THEN Outcome(obj, FALSE, Wrap(err, a.status), "none", update, "failed",
                 path)
    ELSE Outcome([obj EXCEPT !.status = new], FALSE, err, "none", update,
                 "ok", path)

\* r.validate(tsr): always nil.
validate == ErrNil

\* Reconcile of a TSRecorder not marked for deletion. err is the named
\* result of Reconcile, nil after r.Get; the errors of r.Update and
\* r.validate are held by variables of their if statements.
ReconcileLive(obj, a) ==
    LET err == ErrNil
        adds == ~obj.finalizer
        withFinalizer == [obj EXCEPT !.finalizer = TRUE]
        update == IF adds THEN "ok" ELSE "none"
    IN  IF adds /\ a.update # ErrNil
        THEN setStatus(obj, obj.status, "False", "TSRecorderCreationFailed",
                       err, a, "failed", "finalizer")
        ELSE IF validate # ErrNil
        THEN setStatus(withFinalizer, obj.status, "False",
                       "TSRecorderInvalid", err, a, update, "validate")
        ELSE IF a.provision # ErrNil
        THEN setStatus(withFinalizer, obj.status, "False",
                       "TSRecorderCreationFailed", a.provision, a, update,
                       "provision")
        ELSE setStatus(withFinalizer,
                       [obj.status EXCEPT !.Hostname = a.tsHost], "True",
                       "TSRecorderCreated", a.provision, a, update,
                       "synced")

\* What Reconcile does with the answers a.
ReconcileOutcome(obj, a) ==
    IF ~obj.exists
    THEN Outcome(obj, FALSE, ErrNil, "none", "none", "none", "not found")
    ELSE IF a.get # ErrNil
    THEN Outcome(obj, FALSE, ErrWrapped, "none", "none", "none", "get")
    ELSE IF obj.deleting
    THEN ReconcileDeleted(obj, a)
    ELSE ReconcileLive(obj, a)

\* One Reconcile call.
Reconcile(a) ==
    /\ t_n < MaxReconciles
    /\ t_n' = t_n + 1
    /\ t_obj' = ReconcileOutcome(t_obj, a).obj
    /\ t_rec' = ReconcileOutcome(t_obj, a).rec
    /\ UNCHANGED tside

\* A user creates the TSRecorder, with or without finalizers of other
\* controllers.
CreateTSRecorder(others) ==
    /\ ~t_obj.exists
    /\ t_obj' = [NoTSRecorder EXCEPT !.exists = TRUE, !.others = others]
    /\ UNCHANGED <<tside, t_rec, t_n>>

\* A user deletes the TSRecorder: the API server marks it for deletion, or
\* deletes it when it has no finalizer.
DeleteTSRecorder ==
    /\ t_obj.exists
    /\ ~t_obj.deleting
    /\ t_obj' = IF t_obj.finalizer \/ t_obj.others
                THEN [t_obj EXCEPT !.deleting = TRUE]
                ELSE NoTSRecorder
    /\ UNCHANGED <<tside, t_rec, t_n>>

NextTSRecorder ==
    \/ \E a \in Answers : Reconcile(a)
    \/ \E others \in BOOLEAN : CreateTSRecorder(others)
    \/ DeleteTSRecorder

SpecTSRecorder == Init /\ [][NextTSRecorder]_vars

----------------------------------------------------------------------------
\* The steps of the goroutines calling WritePackets.
WriterSteps(W) ==
    \/ \E w \in W, m \in 0..MaxBatch : WritePackets(w, m)
    \/ \E w \in W : QueueWriteRLock(w)
    \/ \E w \in W : QueueWriteSelect(w)
    \/ \E w \in W : QueueWriteDecRef(w)
    \/ \E w \in W : QueueWriteRUnlock(w)

\* The consumer blocked in or calling ReadContext.
ReadContextSteps ==
    \/ \E ctx \in {"live", "done"} : ReadContextCall(ctx)
    \/ CtxCancel
    \/ ReadContextRecv
    \/ ReadContextDone

\* The steps of Drain, called by the consumer or from Close by the closers C.
DrainSteps(C) ==
    \/ \E t \in C : DrainRead(t)
    \/ \E t \in C : DrainRelease(t)

\* The steps of the goroutines calling linkEndpoint.Close.
CloseSteps(C) ==
    \/ \E t \in C : Close(t)
    \/ \E t \in C : QueueClose(t)
    \/ DrainSteps(C)

\* Two concurrent writers and a consumer looping on Read.
Next ==
    \/ WriterSteps(Writers)
    \/ Read

Spec == Init /\ [][Next]_vars

\* Two concurrent writers, a consumer looping on Read and one Close.
NextClose ==
    \/ WriterSteps(Writers)
    \/ Read
    \/ CloseSteps({"c1"})

SpecClose == Init /\ [][NextClose]_vars

\* One writer, the consumer with all its operations and two concurrent closers.
NextAll ==
    \/ WriterSteps({"w1"})
    \/ Read
    \/ ReadContextSteps
    \/ DrainCall
    \/ DrainSteps({Reader})
    \/ CloseSteps(Closers)

SpecAll == Init /\ [][NextAll]_vars

\* One writer, one Close, and a consumer that blocks in ReadContext with a
\* context that is never cancelled, or calls Drain.
NextLive ==
    \/ WriterSteps({"w1"})
    \/ ReadContextCall("live")
    \/ ReadContextRecv
    \/ DrainCall
    \/ DrainSteps({Reader})
    \/ CloseSteps({"c1"})

\* What the Go scheduler and runtime guarantee: a goroutine that can run does
\* run, a receiver blocked on a channel is woken when a value arrives or the
\* channel is closed, and a reader waiting for the RWMutex is admitted when
\* the writer unlocks. Nothing makes the consumer call ReadContext or Drain,
\* and nothing makes Close go on to its Drain.
Fairness ==
    /\ SF_vars(QueueWriteRLock("w1"))
    /\ WF_vars(QueueWriteSelect("w1"))
    /\ WF_vars(QueueWriteDecRef("w1"))
    /\ WF_vars(QueueWriteRUnlock("w1"))
    /\ WF_vars(QueueClose("c1"))
    /\ WF_vars(ReadContextRecv)
    /\ WF_vars(DrainRead(Reader))
    /\ WF_vars(DrainRelease(Reader))

SpecLive == Init /\ [][NextLive]_vars /\ Fairness

\* The steps of enqueueGRO and flushGRO.
GROSteps ==
    \/ EnqueueGRO
    \/ \E ok \in Verdicts : EnqueueValidate(ok)
    \/ \E hold \in BOOLEAN : GroEnqueue(hold)
    \/ EnqueueGRODecRef
    \/ EnqueueGROReturn
    \/ FlushGRO
    \/ FlushGROReturn

\* The steps of injectInbound.
InjectSteps ==
    \/ InjectInbound
    \/ \E ok \in Verdicts : InjectValidate(ok)
    \/ InjectDeliver
    \/ InjectDecRef

\* The steps of the inbound goroutine.
InboundSteps ==
    \/ InjectSteps
    \/ GROSteps

\* The steps of the goroutine calling Attach.
AttachSteps ==
    \/ \E d \in Dispatchers \cup {NoDisp} : Attach(d)
    \/ AttachGRO
    \/ AttachUnlock

\* The inbound goroutine calling injectInbound, Attach, IsAttached and one
\* Close. Nothing is written to the outbound queue, so the Drain of Close
\* finds it empty.
NextInbound ==
    \/ InjectSteps
    \/ AttachSteps
    \/ IsAttached("x1") \/ IsAttachedReturn("x1")
    \/ Close("c1")
    \/ QueueClose("c1")
    \/ DrainRead("c1")

SpecInbound == Init /\ [][NextInbound]_vars

\* The inbound goroutine with all its operations, Attach and IsAttached.
NextInboundAll ==
    \/ InboundSteps
    \/ AttachSteps
    \/ IsAttached("x1") \/ IsAttachedReturn("x1")

SpecInboundAll == Init /\ [][NextInboundAll]_vars

\* The inbound goroutine using the batcher only, Attach and one Close.
NextGROClose ==
    \/ GROSteps
    \/ AttachSteps
    \/ Close("c1")
    \/ QueueClose("c1")
    \/ DrainRead("c1")

SpecGROClose == Init /\ [][NextGROClose]_vars

\* The inbound goroutine using the batcher only, Attach, SetMTU and
\* SetLinkAddress.
NextGRO ==
    \/ GROSteps
    \/ AttachSteps
    \/ \E m \in MTUs : SetMTU("x1", m)
    \/ SetMTUUnlock("x1")
    \/ \E addr \in LinkAddrs : SetLinkAddress("x1", addr)
    \/ SetLinkAddressUnlock("x1")

SpecGRO == Init /\ [][NextGRO]_vars

\* MTU, SetMTU, LinkAddress, SetLinkAddress and IsAttached called from two
\* goroutines, and Attach.
AccessSteps(t) ==
    \/ MTU(t) \/ MTUReturn(t)
    \/ \E m \in MTUs : SetMTU(t, m)
    \/ SetMTUUnlock(t)
    \/ LinkAddress(t) \/ LinkAddressReturn(t)
    \/ \E addr \in LinkAddrs : SetLinkAddress(t, addr)
    \/ SetLinkAddressUnlock(t)
    \/ IsAttached(t) \/ IsAttachedReturn(t)

NextAccess ==
    \/ \E t \in Accessors : AccessSteps(t)
    \/ AttachSteps

SpecAccess == Init /\ [][NextAccess]_vars

----------------------------------------------------------------------------
(* Properties *)

Returned(w) == pc[w] = "idle" /\ pkts[w] # <<>>

\* The packets of the writer's batch that were sent into q.c, in send order.
SentOf(w) == SelectSeq(sendLog, LAMBDA p : p \in Range(pkts[w]))

\* Number of Drain goroutines that hold p between l.Read() and pkt.DecRef().
Held(p) == Cardinality({t \in Drainers : dpkt[t] = p})

\* Number of times p was taken out of the queue by Drain.
Drained(p) == released[p] + Held(p)

\* C1: a queue.Write that starts after queue.Close has returned fails with
\* ErrClosedForSend, never with ErrNoBufferSpace, and sends nothing, whether
\* the queue was empty, partly filled or full when it was closed.
C1_WriteAfterClose ==
    \A w \in Writers :
        afterClose[w] =>
            /\ pc[w] \in {"rlock", "idle"}
            /\ pc[w] = "idle" => werr[w] = ErrClosedForSend
            /\ CurPkt(w) \notin Range(sendLog)
            /\ refs[CurPkt(w)] = 1

\* A Write after Close has failed with ErrClosedForSend on a queue that was
\* full when it was closed and has not been drained yet.
C1_Witness ==
    \E w \in Writers :
        /\ afterClose[w]
        /\ pc[w] = "idle"
        /\ werr[w] = ErrClosedForSend
        /\ Len(q_c) = QueueSize

\* C2: once linkEndpoint.Close has returned, with WritePackets callers running
\* concurrently, the outbound queue is empty and stays empty, and every packet
\* that was sent into it was returned to the reader or taken out by Drain.
C2_NothingLeftAfterClose ==
    closeReturned =>
        /\ q_c = <<>>
        /\ \A p \in Range(sendLog) : Occ(readLog, p) + Drained(p) = 1

\* Close has returned after Drain released a packet, and a concurrent
\* WritePackets call was cut short by the Close after its first packet.
C2_Witness ==
    /\ closeReturned
    /\ \E p \in Pkts : released[p] = 1
    /\ \E w \in Writers :
        /\ pc[w] = "idle"
        /\ werr[w] = ErrClosedForSend
        /\ idx[w] > 1

\* Packets of returned batches that the return value does not count.
Uncounted ==
    {p \in 1..(nextPkt - 1) :
        /\ p \notin counted
        /\ \A w \in Writers : pc[w] # "idle" => p \notin Range(pkts[w])}

\* C3: with concurrent WritePackets callers and one consumer, every packet
\* counted in a WritePackets return value is returned by Read exactly once or
\* is still queued, a packet that no return value counts is never queued or
\* returned, and when no call is in progress the returned counts add up to
\* the packets read plus the packets still queued. (Drain consumes through
\* Read; the packets it took count as read.)
C3_ExactlyOnce ==
    /\ \A p \in counted : Occ(readLog, p) + Drained(p) + Occ(q_c, p) = 1
    /\ \A p \in Uncounted : Occ(readLog, p) + Drained(p) + Occ(q_c, p) = 0
    /\ (\A w \in Writers : pc[w] = "idle") =>
          Cardinality(counted)
            = Len(readLog) + Cardinality({p \in Pkts : Drained(p) > 0}) + Len(q_c)

\* Both writers have returned a positive count, one batch was cut short by
\* backpressure, and the reader has read every counted packet.
C3_Witness ==
    /\ \A w \in Writers : pc[w] = "idle" /\ ret[w].n > 0
    /\ \E w \in Writers : werr[w] = ErrNoBufferSpace
    /\ Range(readLog) = counted
    /\ Uncounted # {}

\* C4 as stated: a WritePackets call with a non-empty batch either sends at
\* least one packet or returns a non-nil error; it never returns zero written
\* with no error.
C4_OneWrittenOrError ==
    \A w \in Writers :
        Returned(w) => SentOf(w) # <<>> \/ ret[w].err # ErrNil

\* C4 amended: a WritePackets call with a non-empty batch either sends at
\* least one packet, or returns a non-nil error, or found the queue full at
\* its first packet and returns zero written with no error.
C4_OneWrittenOrErrorOrFull ==
    \A w \in Writers :
        Returned(w) =>
            \/ SentOf(w) # <<>>
            \/ ret[w].err # ErrNil
            \/ /\ werr[w] = ErrNoBufferSpace
               /\ ret[w] = [n |-> 0, err |-> ErrNil]

\* A call on an open, full queue has returned zero written with no error.
C4_Witness ==
    \E w \in Writers :
        /\ Returned(w)
        /\ ~q_closed
        /\ Len(q_c) = QueueSize
        /\ SentOf(w) = <<>>
        /\ werr[w] = ErrNoBufferSpace
        /\ ret[w] = [n |-> 0, err |-> ErrNil]

\* C5: a WritePackets call whose batch meets a full queue after k >= 1 of its
\* packets were sent stops there and returns (k, nil); the packets it sent
\* are the first k packets of the batch, in batch order, and no later one.
C5_PartialWrite ==
    \A w \in Writers :
        /\ SentOf(w) = SubSeq(pkts[w], 1, Len(SentOf(w)))
        /\ (Returned(w) /\ werr[w] = ErrNoBufferSpace /\ SentOf(w) # <<>>) =>
              /\ ret[w] = [n |-> Len(SentOf(w)), err |-> ErrNil]
              /\ Len(SentOf(w)) < Len(pkts[w])

\* A call has returned (1, nil) after the second packet of its batch of three
\* met a full queue, and the queue has room again.
C5_Witness ==
    \E w \in Writers :
        /\ Returned(w)
        /\ werr[w] = ErrNoBufferSpace
        /\ ret[w] = [n |-> 1, err |-> ErrNil]
        /\ Len(pkts[w]) = 3
        /\ Len(q_c) < QueueSize

\* C6 as stated: a WritePackets call in which a queue.Write failed with
\* ErrClosedForSend returns ErrClosedForSend.
C6_ClosedIsReturned ==
    \A w \in Writers :
        (Returned(w) /\ werr[w] = ErrClosedForSend) =>
            ret[w].err = ErrClosedForSend

\* C6 amended: a WritePackets call in which a queue.Write failed with
\* ErrClosedForSend returns (0, ErrClosedForSend) when it had sent no packet
\* of the batch, and (k, nil) when it had already sent k >= 1 packets.
C6_ClosedIsReturnedUnlessPartial ==
    \A w \in Writers :
        (Returned(w) /\ werr[w] = ErrClosedForSend) =>
            ret[w] = IF SentOf(w) = <<>>
                     THEN [n |-> 0, err |-> ErrClosedForSend]
                     ELSE [n |-> Len(SentOf(w)), err |-> ErrNil]

\* A call cut short by a concurrent Close after its first packet has returned
\* (1, nil).
C6_Witness ==
    \E w \in Writers :
        /\ Returned(w)
        /\ werr[w] = ErrClosedForSend
        /\ ret[w] = [n |-> 1, err |-> ErrNil]

\* The packets of the writer's batch returned to the reader, in read order.
ReadOf(w) == SelectSeq(readLog, LAMBDA p : p \in Range(pkts[w]))

\* C7: a WritePackets call with a batch of M <= QueueSize packets that starts
\* on an empty open queue and runs with no other writer returns (M, nil), and
\* the reader receives the M packets in batch order, the queue being empty
\* after the last of them.
C7_BatchFifo ==
    \A w \in Writers :
        (solo[w] /\ pc[w] = "idle" /\ Len(pkts[w]) <= QueueSize) =>
            /\ ret[w] = [n |-> Len(pkts[w]), err |-> ErrNil]
            /\ ReadOf(w) \o q_c = pkts[w]

\* A batch that fills the queue was accepted whole and has been read back in
\* order, leaving the queue empty.
C7_Witness ==
    \E w \in Writers :
        /\ solo[w]
        /\ pc[w] = "idle"
        /\ Len(pkts[w]) = QueueSize
        /\ ReadOf(w) = pkts[w]
        /\ q_c = <<>>

\* C8: a queue.Write whose select finds the open queue full leaves q.c as it
\* is and takes the default branch; the Write returns ErrNoBufferSpace, and
\* the rejected packet is not in the queue and has its reference count back.
C8_FullQueueRejects ==
    /\ [][\A w \in Writers :
            (pc[w] = "select" /\ pc'[w] # "select" /\ Len(q_c) = QueueSize) =>
                /\ q_c' = q_c
                /\ pc'[w] = "decref"]_vars
    /\ [][\A w \in Writers :
            (pc[w] = "decref" /\ pc'[w] # "decref") =>
                /\ q_c' = q_c
                /\ refs'[CurPkt(w)] = refs[CurPkt(w)] - 1]_vars
    /\ [][\A w \in Writers :
            (pc[w] = "runlock" /\ ~wrote[w] /\ pc'[w] # "runlock") =>
                /\ q_c' = q_c
                /\ werr'[w] = ErrNoBufferSpace
                /\ refs[CurPkt(w)] = 1]_vars
    /\ [](\A w \in Writers :
            (pc[w] = "idle" /\ werr[w] = ErrNoBufferSpace) =>
                CurPkt(w) \notin Range(sendLog))

\* A Write has returned ErrNoBufferSpace and the open queue still holds
\* QueueSize packets.
C8_Witness ==
    \E w \in Writers :
        /\ pc[w] = "idle"
        /\ werr[w] = ErrNoBufferSpace
        /\ ~q_closed
        /\ Len(q_c) = QueueSize

\* C9: under any interleaving of Write, Read, ReadContext, Drain and Close
\* the queue holds between 0 and QueueSize packets, and once q.closed is set
\* it stays set and no packet is sent into q.c any more.
C9_BoundedAndClosedForGood ==
    /\ [](Len(q_c) <= QueueSize)
    /\ [][q_closed => (q_closed' /\ sendLog' = sendLog /\ Len(q_c') <= Len(q_c))]_vars

\* The queue was closed while full and a later Write was refused.
C9_Witness ==
    /\ q_closed
    /\ Len(sendLog) = QueueSize
    /\ pc[Reader] = "readctx"
    /\ \E w \in Writers : afterClose[w] /\ pc[w] = "idle"

C11_CloseWakesReader ==
    (pc[Reader] = "readctx" /\ q_c = <<>> /\ pc["c1"] = "close")
        ~> (pc[Reader] = "idle" /\ rret = <<NoPkt>>)

\* The blocked ReadContext has returned nil on the closed queue while Close
\* has not yet returned.
C11_Witness ==
    /\ pc[Reader] = "idle"
    /\ rret = <<NoPkt>>
    /\ q_c_closed
    /\ pc["c1"] = "drain"

\* C12: a ReadContext call made with an already cancelled context on a queue
\* that holds a packet always returns nil and takes nothing out of the queue.
C12_CancelledReadReturnsNil ==
    (rpre /\ pc[Reader] = "idle") => rret = <<NoPkt>>

\* C13: the step in which ReadContext returns removes from the queue exactly
\* what it returns: nothing when it returns nil (the context was cancelled, or
\* the closed queue was empty), and otherwise the head of the queue, which is
\* the packet returned to the caller.
C13_CancelLosesNothing ==
    [][(pc[Reader] = "readctx" /\ pc'[Reader] = "idle") =>
          /\ Len(rret') = 1
          /\ rret'[1] = NoPkt => (q_c' = q_c /\ readLog' = readLog)
          /\ rret'[1] # NoPkt =>
                (q_c = rret' \o q_c' /\ readLog' = readLog \o rret')]_vars

\* A cancelled ReadContext has returned nil on the open queue, which still
\* holds the packets that arrived while it was waiting.
C13_Witness ==
    /\ pc[Reader] = "idle"
    /\ rret = <<NoPkt>>
    /\ ~rpre
    /\ ~q_closed
    /\ Len(q_c) = QueueSize

\* C14: every WritePackets call returns, whatever the consumer does: nothing
\* makes the consumer read or drain, the queue may be full, and Close may run
\* at any point of the call.
C14_WritePacketsTerminates ==
    (pc["w1"] # "idle") ~> (pc["w1"] = "idle")

\* A WritePackets call has returned after meeting the full queue, and no
\* packet was ever read or drained.
C14_Witness ==
    /\ pc["w1"] = "idle"
    /\ werr["w1"] = ErrNoBufferSpace
    /\ Len(q_c) = QueueSize
    /\ readLog = <<>>
    /\ \A p \in Pkts : Drained(p) = 0

\* C15: a Drain that runs with no writer, reader or Close beside it, on a
\* queue holding d packets, open or closed, terminates and returns d; when it
\* returns the queue is empty and each of the d packets had one reference
\* released, once. While it runs, the packets still queued, the packet in
\* hand and the packets counted add up to d.
C15_DrainAlone ==
    /\ []((dstart # <<>> /\ pc[Reader] \in {"drain", "release"}) =>
            /\ Len(q_c) + dcount[Reader]
                 + (IF pc[Reader] = "release" THEN 1 ELSE 0) = Len(dstart[1])
            /\ q_c = SubSeq(dstart[1], Len(dstart[1]) - Len(q_c) + 1, Len(dstart[1])))
    /\ [][(dstart # <<>> /\ pc[Reader] = "drain" /\ pc'[Reader] = "idle") =>
            /\ dcount[Reader] = Len(dstart[1])
            /\ q_c' = <<>>
            /\ \A p \in Range(dstart[1]) : released'[p] = 1 /\ refs'[p] = 1]_vars
    /\ (dstart # <<>> /\ pc[Reader] \in {"drain", "release"})
          ~> (pc[Reader] = "idle")

\* A Drain that ran alone on the full open queue has released and counted
\* QueueSize packets and is about to find the queue empty.
C15_Witness ==
    /\ pc[Reader] = "drain"
    /\ dstart # <<>>
    /\ Len(dstart[1]) = QueueSize
    /\ dcount[Reader] = QueueSize
    /\ \A p \in Range(dstart[1]) : released[p] = 1
    /\ q_c = <<>>
    /\ ~q_closed

\* Number of queue.Write calls that have evaluated pkt.IncRef() for p and
\* have neither sent p nor given the reference back.
InFlight(p) ==
    Cardinality({w \in Writers : pc[w] \in {"select", "decref"} /\ CurPkt(w) = p})

\* C16: a queue.Write adds exactly one reference to its packet when it
\* succeeds and none when it fails with ErrNoBufferSpace or ErrClosedForSend,
\* and in every state the references of a packet beyond its creator's, the
\* ones of the Writes in progress and the ones handed to the consumer are as
\* many as the times the packet is in the queue.
C16_QueueOwnsOneReference ==
    /\ [](\A p \in Pkts :
            refs[p] - 1 - InFlight(p) - Occ(readLog, p) - Held(p) = Occ(q_c, p))
    /\ [][\A w \in Writers :
            ((pc[w] = "runlock" /\ pc'[w] # "runlock")
                \/ (pc[w] = "rlock" /\ pc'[w] = "idle")) =>
                IF werr'[w] = ErrNil
                THEN refs'[CurPkt(w)] + released'[CurPkt(w)] = 2
                ELSE /\ refs'[CurPkt(w)] = 1
                     /\ Occ(q_c', CurPkt(w)) = 0]_vars

\* One Write was refused by the full queue and its packet has a single
\* reference again, a Write after Close was refused too, and the packets in
\* the queue have two references each.
C16_Witness ==
    /\ \E w \in Writers :
          /\ pc[w] = "idle"
          /\ werr[w] = ErrNoBufferSpace
          /\ refs[CurPkt(w)] = 1
    /\ \E w \in Writers :
          /\ pc[w] = "idle"
          /\ werr[w] = ErrClosedForSend
          /\ refs[CurPkt(w)] = 1
    /\ q_c # <<>>
    /\ \A p \in Range(q_c) : refs[p] = 2

\* C17: no packet is delivered to a dispatcher after an Attach with another
\* dispatcher has returned: every delivery goes to the dispatcher of the last
\* Attach that returned, or to the one an Attach in progress has stored.
C17_NoStaleDelivery ==
    \A k \in 1..Len(delivered) : ~delivered[k].stale

\* C18: the endpoint only moves forward along Unattached -> Attached ->
\* Closed: before Close no step takes an attached endpoint (IsAttached() true)
\* back to unattached, and once Close has returned no step attaches a
\* dispatcher.
C18_LifecycleForward ==
    [][/\ (dispatcher # NoDisp /\ ~q_closed) => dispatcher' # NoDisp
       /\ (closeReturned /\ dispatcher' # dispatcher) => dispatcher' = NoDisp]_vars

\* C19: Close detaches the dispatcher: once Close has returned, an IsAttached
\* call reports false, and no injectInbound, enqueueGRO or flushGRO call that
\* starts afterwards delivers a packet.
C19_CloseDetaches ==
    [][/\ (closeReturned /\ att' # att) => att' = <<FALSE>>
       /\ \A k \in 1..Len(delivered') :
             k > Len(delivered) => ~delivered'[k].afterClose]_vars

\* Number of DeliverNetworkPacket calls made with buffer b.
Deliveries(b) == Cardinality({k \in 1..Len(delivered) : delivered[k].buf = b})

\* C20: an injectInbound call goes on to deliver exactly when the validator
\* accepts the packet and the dispatcher it read is not nil, and otherwise
\* returns with nothing delivered; the delivery is one DeliverNetworkPacket
\* call on that dispatcher with the validator's buffer, whose single
\* reference is released after the delivery, and no buffer is ever delivered
\* twice.
C20_InjectDeliversOnce ==
    /\ [][(pc[Inbound] = "validate" /\ pc'[Inbound] # "validate") =>
            /\ pc'[Inbound] = (IF i_d # NoDisp /\ i_ok' THEN "deliver" ELSE "idle")
            /\ delivered' = delivered
            /\ pc'[Inbound] = "deliver" =>
                  (irefs'[i_pkt'] = 1 /\ Deliveries(i_pkt') = 0)]_vars
    /\ [][(pc[Inbound] = "deliver" /\ pc'[Inbound] # "deliver") =>
            /\ pc'[Inbound] = "decref"
            /\ Len(delivered') = Len(delivered) + 1
            /\ delivered'[Len(delivered')].to = i_d
            /\ delivered'[Len(delivered')].buf = i_pkt
            /\ irefs'[i_pkt] = 1]_vars
    /\ [][(pc[Inbound] = "decref" /\ pc'[Inbound] # "decref") =>
            /\ pc'[Inbound] = "idle"
            /\ delivered' = delivered
            /\ irefs[i_pkt] = 1
            /\ irefs'[i_pkt] = 0]_vars
    /\ [](\A b \in Bufs : Deliveries(b) <= 1 /\ irefs[b] >= 0)

\* injectInbound has delivered the first buffer to the dispatcher it read and
\* is about to release it; nothing else was delivered.
C20_Witness ==
    /\ pc[Inbound] = "decref"
    /\ i_d \in Dispatchers
    /\ i_pkt = 1
    /\ delivered = <<[to |-> i_d, buf |-> 1, stale |-> FALSE,
                     afterClose |-> FALSE, by |-> "injectInbound"]>>
    /\ irefs[1] = 1

\* C21: an enqueueGRO call made while no dispatcher is attached goes from its
\* test of l.gro.Dispatcher straight to its return, without calling
\* rxChecksumOffload; neither step changes the buffers the batcher holds,
\* makes a DeliverNetworkPacket call, or creates or releases a buffer.
C21_EnqueueWithoutDispatcher ==
    [][/\ (/\ pc[Inbound] = "idle"
           /\ pc'[Inbound] \in {"grovalidate", "groreturn"}
           /\ dispatcher = NoDisp)
          => /\ pc'[Inbound] = "groreturn"
             /\ gro_held' = gro_held
             /\ delivered' = delivered
             /\ irefs' = irefs
             /\ nextBuf' = nextBuf
       /\ (/\ pc[Inbound] = "groreturn"
           /\ pc'[Inbound] = "idle"
           /\ dispatcher = NoDisp)
          => /\ gro_held' = gro_held
             /\ delivered' = delivered
             /\ irefs' = irefs
             /\ nextBuf' = nextBuf]_vars

\* An enqueueGRO call is at its return, no dispatcher is attached, and the
\* batcher still holds a buffer from the time one was.
C21_Witness ==
    /\ pc[Inbound] = "groreturn"
    /\ dispatcher = NoDisp
    /\ gro_dispatcher = NoDisp
    /\ gro_held # <<>>
    /\ nextBuf <= MaxInbound

\* C22: a flushGRO call made while the batcher holds nothing, or while no
\* dispatcher is attached, makes no DeliverNetworkPacket call, does not
\* panic, and leaves the held buffers, their reference counts, the
\* dispatcher, the MTU, the link address and the outbound queue as they were;
\* so does its return.
C22_FlushNoOp ==
    [][/\ (/\ pc[Inbound] = "idle"
           /\ pc'[Inbound] = "flushreturn"
           /\ (gro_held = <<>> \/ dispatcher = NoDisp))
          => /\ delivered' = delivered
             /\ gro_held' = gro_held
             /\ irefs' = irefs
             /\ ~panicked'
             /\ UNCHANGED <<dispatcher, gro_dispatcher, mtu, linkAddr, q_c,
                            q_c_closed, q_closed, refs>>
       /\ (pc[Inbound] = "flushreturn" /\ pc'[Inbound] = "idle")
          => UNCHANGED <<delivered, gro_held, irefs, panicked, dispatcher,
                         gro_dispatcher, mtu, linkAddr, q_c, q_c_closed,
                         q_closed, refs>>]_vars

\* A flushGRO call is at its return with no dispatcher attached; the batcher
\* still holds the buffer it held before, and SetMTU and SetLinkAddress have
\* been used.
C22_Witness ==
    /\ pc[Inbound] = "flushreturn"
    /\ dispatcher = NoDisp
    /\ gro_held = <<1>>
    /\ irefs[1] = 1
    /\ delivered = <<>>
    /\ mtu # InitMTU
    /\ linkAddr # InitLinkAddr

C24_CloseFlushesGRO ==
    [][(pc["c1"] = "close" /\ pc'["c1"] = "drain")
       => /\ ~panicked'
          /\ gro_held' = <<>>
          /\ Len(delivered') = Len(delivered) + Len(gro_held)
          /\ \A k \in 1..Len(gro_held) :
                delivered'[Len(delivered) + k].buf = gro_held[k]]_vars

\* C25: when rxChecksumOffload rejects the packet, injectInbound returns and
\* enqueueGRO goes to its return without a DeliverNetworkPacket call, without
\* a buffer being made or handed to the batcher, and with the dispatcher,
\* the held buffers and the outbound queue as they were; the return of
\* enqueueGRO gives the read lock back, so the next call is not held up.
\* Every buffer delivered or held is one rxChecksumOffload made for an
\* accepted packet.
C25_RejectedIsDropped ==
    /\ [][/\ (pc[Inbound] = "validate" /\ pc'[Inbound] # "validate" /\ ~i_ok')
             => /\ pc'[Inbound] = "idle"
                /\ Inbound \notin l_mu'.r
                /\ UNCHANGED <<delivered, gro_held, irefs, nextBuf,
                               dispatcher, gro_dispatcher, q_c, q_c_closed,
                               q_closed, panicked>>
          /\ (pc[Inbound] = "grovalidate" /\ pc'[Inbound] # "grovalidate" /\ ~i_ok')
             => /\ pc'[Inbound] = "groreturn"
                /\ UNCHANGED <<delivered, gro_held, irefs, nextBuf,
                               dispatcher, gro_dispatcher, q_c, q_c_closed,
                               q_closed, panicked>>
          /\ (pc[Inbound] = "groreturn" /\ pc'[Inbound] # "groreturn")
             => /\ pc'[Inbound] = "idle"
                /\ Inbound \notin l_mu'.r
                /\ UNCHANGED <<delivered, gro_held, irefs, nextBuf,
                               dispatcher, gro_dispatcher, q_c, q_c_closed,
                               q_closed, panicked>>]_vars
    /\ [](/\ \A k \in 1..Len(delivered) : delivered[k].buf \in 1..(nextBuf - 1)
          /\ \A k \in 1..Len(gro_held) : gro_held[k] \in 1..(nextBuf - 1))

\* enqueueGRO is at its return after rxChecksumOffload rejected its packet,
\* with a dispatcher attached: the buffer held from an earlier call is still
\* the only one, nothing was delivered, and a buffer is left for a later
\* accepted packet.
C25_Witness ==
    /\ pc[Inbound] = "groreturn"
    /\ ~i_ok
    /\ gro_dispatcher \in Dispatchers
    /\ gro_held = <<1>>
    /\ delivered = <<>>
    /\ nextBuf = 2
    /\ nextBuf <= MaxInbound

\* C26: for a buffer shorter than 20 bytes with IP version 4, or shorter than
\* 40 bytes with IP version 6, the empty buffer included, rxChecksumOffload
\* returns nil; it does not index outside the buffer.
C26_ShortBufferRejected ==
    (/\ v_pc = "returned"
     /\ \/ v_p.IPVersion = 4 /\ Len(v_called) < 20
        \/ v_p.IPVersion = 6 /\ Len(v_called) < 40)
    => v_ret.kind = "nil"

\* rxChecksumOffload has returned nil for an IPv6 packet of 39 bytes whose
\* protocol is TCP.
C26_Witness ==
    /\ v_pc = "returned"
    /\ v_p.IPVersion = 6
    /\ v_p.IPProto = TCP
    /\ Len(v_called) = 39
    /\ v_ret.kind = "nil"

\* C27: for an IPv4 packet with header length hl = 4 * (first byte AND 0x0F),
\* rxChecksumOffload returns nil when hl is below 20 or the buffer is shorter
\* than hl, and whenever it computes the header checksum it does so over
\* the first hl bytes, which lie inside the buffer; it never slices outside.
C27_HeaderInsideBuffer ==
    (/\ v_pc = "returned"
     /\ v_p.IPVersion = 4
     /\ Len(v_called) >= 1)
    => LET hl == 4 * (v_called[1] % 16) IN
       /\ (hl < 20 \/ Len(v_called) < hl) => v_ret.kind = "nil"
       /\ v_ret.kind # "panic"
       /\ v_ret.csumOver # 0 =>
             /\ v_ret.csumOver = hl
             /\ 20 <= hl
             /\ hl <= Len(v_called)

\* rxChecksumOffload has returned nil for an IPv4 packet whose header-length
\* nibble is 15 and whose buffer, of 59 bytes, is one byte short of the
\* header.
C27_Witness ==
    /\ v_pc = "returned"
    /\ v_p.IPVersion = 4
    /\ Len(v_called) = 59
    /\ v_called[1] % 16 = 15
    /\ v_ret.kind = "nil"
    /\ v_ret.csumOver = 0

\* C28: when the caller flips one bit of the header checksum field of an
\* IPv4 packet that rxChecksumOffload accepted and calls again, the call
\* returns nil.
C28_HeaderChecksumBitFlip ==
    v_pc = "revalidated" => v_ret.kind = "nil"

\* rxChecksumOffload has returned nil for an IPv4/UDP packet with options
\* that it accepted before the caller flipped the top bit of the header
\* checksum.
C28_Witness ==
    /\ v_pc = "revalidated"
    /\ v_p.IPProto = UDP
    /\ v_called[1] % 16 = 6
    /\ v_ret.kind = "nil"
    /\ v_ret.csumOver = 24

\* The one's-complement sum of the big-endian 16-bit words of b (an odd last
\* byte padded with a zero byte): the total modulo 65535, a non-zero multiple
\* of 65535 being 65535.
OnesComplementSum(b) ==
    LET nw == (Len(b) + 1) \div 2
        word(k) == b[2 * k - 1] * 256 + (IF 2 * k <= Len(b) THEN b[2 * k] ELSE 0)
        total[k \in 0..nw] == IF k = 0 THEN 0 ELSE total[k - 1] + word(k)
    IN  IF total[nw] = 0 THEN 0 ELSE ((total[nw] - 1) % 65535) + 1

\* C29: rxChecksumOffload accepts a TCP or UDP packet only if the
\* one's-complement sum of the pseudo-header (source address, destination
\* address, zero byte and protocol, length of the bytes after the IP header)
\* followed by the bytes after the IP header is 0xFFFF, that is, has
\* complement zero.
C29_TransportChecksum ==
    (/\ v_pc = "returned"
     /\ v_p.IPProto \in {TCP, UDP}
     /\ v_p.IPVersion \in {4, 6}
     /\ v_ret.kind = "pkt")
    => LET hl == IF v_p.IPVersion = 4 THEN 4 * (v_called[1] % 16) ELSE 40
           after == SubSeq(v_called, hl + 1, Len(v_called))
       IN  OnesComplementSum(v_p.Src \o v_p.Dst \o <<0, v_p.IPProto>>
                             \o <<Len(after) \div 256, Len(after) % 256>>
                             \o after) = 65535

\* rxChecksumOffload has accepted an IPv6/UDP packet with an odd number of
\* bytes after the IP header.
C29_Witness ==
    /\ v_pc = "returned"
    /\ v_p.IPVersion = 6
    /\ v_p.IPProto = UDP
    /\ Len(v_called) = 53
    /\ v_ret.kind = "pkt"

\* C30: a packetBuf rxChecksumOffload returned has the bytes the buffer had
\* at the call, also after the caller has written to its buffer, and is
\* marked RXChecksumValidated; the call itself, accepting or not, leaves the
\* caller's packet.Parsed and buffer as they were.
C30_PrivateCopy ==
    /\ []((v_pc \in {"returned", "reused", "flipped"} /\ v_ret.kind = "pkt")
          => /\ PayloadBytes(v_ret) = v_called
             /\ v_ret.RXChecksumValidated)
    /\ [][(v_pc = "parsed" \/ v_pc = "flipped") => v_p' = v_p]_vars

\* The caller has overwritten the last byte of a buffer rxChecksumOffload
\* accepted; the payload of the returned packetBuf still has the old bytes.
C30_Witness ==
    /\ v_pc = "reused"
    /\ v_ret.kind = "pkt"
    /\ v_ret.NetworkProtocolNumber = IPv4ProtocolNumber
    /\ v_p.b # v_called
    /\ v_p.b[1] = v_called[1]
    /\ PayloadBytes(v_ret) = v_called
\* The goroutines inside a section of linkEndpoint.mu: between Lock and
\* Unlock (SetMTU, SetLinkAddress, Attach), between RLock and RUnlock (MTU,
\* LinkAddress, IsAttached).
InWrite == {t \in Accessors : a_pc[t] \in {"setmtu", "setlinkaddress"}}
               \cup {t \in {Attacher} : pc[t] \in {"attachgro", "attach"}}
InRead == {t \in Accessors : a_pc[t] \in {"mtu", "linkaddress", "isattached"}}

\* C31: under every interleaving of MTU, SetMTU, LinkAddress, SetLinkAddress,
\* Attach and IsAttached, a goroutine inside a write section of
\* linkEndpoint.mu is alone inside any section; an MTU call returns the MTU
\* given to newLinkEndpoint or that of the last SetMTU call that returned;
\* the steps of SetMTU change no field but the MTU and those of
\* SetLinkAddress none but the link address.
C31_FieldsUnderLock ==
    /\ [](InWrite # {} => (Cardinality(InWrite) = 1 /\ InRead = {}))
    /\ [][\A t \in Accessors :
            /\ (a_pc[t] = "mtu" /\ a_pc'[t] = "idle")
               => a_ret'[t] = <<"MTU", mtuDone>>
            /\ (a_pc[t] = "setmtu" \/ a_pc'[t] = "setmtu")
               => UNCHANGED <<linkAddr, dispatcher, gro_dispatcher, att>>
            /\ (a_pc[t] = "setlinkaddress" \/ a_pc'[t] = "setlinkaddress")
               => UNCHANGED <<mtu, dispatcher, gro_dispatcher, att>>]_vars

\* An MTU call has returned the MTU a SetMTU call of the other goroutine
\* stored, the link address and the dispatcher having been replaced too, and
\* a SetLinkAddress call is inside its section.
C31_Witness ==
    /\ a_ret["x1"] = <<"MTU", 1500>>
    /\ mtuDone = 1500
    /\ linkAddr # InitLinkAddr
    /\ dispatcher = "D2"
    /\ a_pc["x2"] = "setlinkaddress"
    /\ a_pc["x1"] = "idle"

\* C33: with Close running concurrently with the queue.Write calls of two
\* writers, no Write sends on the closed channel (nothing panics): from its
\* test of q.closed to its RUnlock a Write holds the read lock of queue.mu
\* and the channel is open when it reaches its select, and the channel is
\* closed only by a step of a goroutine that holds the write lock, no reader
\* being inside.
C33_NoSendOnClosedChannel ==
    /\ [](~panicked)
    /\ [](\A w \in Writers :
             /\ pc[w] \in {"select", "decref", "runlock"} => w \in q_mu.r
             /\ pc[w] = "select" => ~q_c_closed)
    /\ [][q_c_closed' # q_c_closed
            => (q_mu.w \in Closers /\ q_mu.r = {})]_vars

\* Close holds the write lock of queue.mu and has not closed the channel yet;
\* both writers, each in the middle of a batch, wait at the RLock of their
\* next queue.Write.
C33_Witness ==
    /\ pc["c1"] = "close"
    /\ ~q_c_closed
    /\ \A w \in Writers : pc[w] = "rlock" /\ idx[w] > 1
    /\ Len(q_c) = QueueSize

\* C34: with one inbound goroutine calling enqueueGRO and flushGRO and a
\* Close call made from another goroutine, every step that changes the
\* buffers the batcher holds is a step of the inbound goroutine made with the
\* read lock of linkEndpoint.mu held, and the l.gro.Flush() of Close is not
\* made between the test of l.gro.Dispatcher and the end of l.gro.Enqueue of
\* an enqueueGRO call in progress.
C34_BatcherSingleThreaded ==
    [][/\ gro_held' # gro_held
          => (pc'[Inbound] # pc[Inbound] /\ Inbound \in (l_mu.r \cup l_mu'.r))
       /\ (pc["c1"] = "close" /\ pc'["c1"] = "drain")
          => pc[Inbound] \notin {"grovalidate", "groenqueue"}]_vars

\* C35: in every state in which no Attach call is between its Lock and its
\* Unlock, and in every state in which a goroutine holds the read lock of
\* linkEndpoint.mu, l.dispatcher (read by injectInbound and IsAttached) and
\* l.gro.Dispatcher (read by the batcher) are the same; both are changed
\* only by steps of Attach, made with the write lock held.
C35_OneDispatcher ==
    /\ []((pc[Attacher] = "idle" \/ l_mu.r # {})
             => dispatcher = gro_dispatcher)
    /\ [][(dispatcher' # dispatcher \/ gro_dispatcher' # gro_dispatcher)
             => /\ pc'[Attacher] # pc[Attacher]
                /\ l_mu'.w = Attacher
                /\ l_mu'.r = {}]_vars

\* Attach has replaced D1 by D2 and returned, after injectInbound and the
\* batcher both delivered to D1; the batcher holds a buffer and IsAttached
\* has reported true.
C35_Witness ==
    /\ pc[Attacher] = "idle"
    /\ dispatcher = "D2"
    /\ gro_dispatcher = "D2"
    /\ \E k \in 1..Len(delivered) :
          delivered[k].to = "D1" /\ delivered[k].by = "injectInbound"
    /\ gro_held # <<>>
    /\ att = <<TRUE>>

\* C36: a buffer the batcher kept is delivered, by flushGRO or by Close,
\* only to the dispatcher that was attached when l.gro.Enqueue kept it, even
\* when Attach replaces or removes the dispatcher in between, and no delivery
\* is attempted on a nil dispatcher (nothing panics).
C36_DeliveredWhereEnqueued ==
    /\ ~panicked
    /\ \A k \in 1..Len(delivered) :
          delivered[k].by \in {"flushGRO", "Close"}
             => delivered[k].to = enqAt[delivered[k].buf]

\* C37: a buffer rxChecksumOffload returns carries the IPv4 protocol number
\* for a packet of IP version 4 and the IPv6 one for a packet of IP version
\* 6, and for a packet of any other IP version rxChecksumOffload returns nil.
C37_VersionDecidesProtocol ==
    v_pc = "returned" =>
        /\ v_ret.kind = "pkt" =>
              \/ /\ v_p.IPVersion = 4
                 /\ v_ret.NetworkProtocolNumber = IPv4ProtocolNumber
              \/ /\ v_p.IPVersion = 6
                 /\ v_ret.NetworkProtocolNumber = IPv6ProtocolNumber
        /\ v_p.IPVersion \notin {4, 6} => v_ret.kind = "nil"

\* C32: a SetValue or ClearValue call on a managed preference, read-only as
\* well or not, returns ErrManaged, one on a read-only preference that is not
\* managed returns ErrReadOnly, and either leaves the value, the default and
\* both flags as they were; on any other preference the call returns nil
\* and sets or clears the value, changing nothing else.
C32_ModifyErrors ==
    [][(p_n' # p_n /\ p_ret'.op \in {"SetValue", "ClearValue"}) =>
         /\ p_s.Managed => (p_ret'.err = ErrManaged /\ p_s' = p_s)
         /\ (p_s.ReadOnly /\ ~p_s.Managed)
               => (p_ret'.err = ErrReadOnly /\ p_s' = p_s)
         /\ (~p_s.ReadOnly /\ ~p_s.Managed)
               => /\ p_ret'.err = ErrNil
                  /\ p_s' = [p_s EXCEPT !.Value =
                               IF p_ret'.op = "SetValue"
                               THEN <<p_ret'.arg>> ELSE <<>>]]_vars

\* SetValue has returned ErrManaged on a preference that is managed and
\* read-only, whose managed value and default it left in place.
C32_Witness ==
    /\ p_ret = [op |-> "SetValue", arg |-> 1, err |-> ErrManaged]
    /\ p_s = [Value |-> <<2>>, Default |-> 1, Managed |-> TRUE,
              ReadOnly |-> TRUE]

\* C40: after any sequence of SetValue, ClearValue, SetManagedValue,
\* ClearManaged and SetReadOnly calls (and SetDefaultValue), ReadOnly() is
\* true whenever Managed() is, and a SetValue or ClearValue call returns nil
\* exactly when ReadOnly() was false when it was made.
C40_ReadOnlyGuardsValue ==
    /\ [](Managed => ReadOnly)
    /\ [][(p_n' # p_n /\ p_ret'.op \in {"SetValue", "ClearValue"})
             => (p_ret'.err = ErrNil <=> ~ReadOnly)]_vars

\* ClearValue has failed on a managed preference whose read-only flag is not
\* set, leaving the managed value in place.
C40_Witness ==
    /\ Managed
    /\ ~p_s.ReadOnly
    /\ ReadOnly
    /\ p_ret.op = "ClearValue"
    /\ p_ret.err = ErrManaged
    /\ p_s.Value = <<1>>

\* C38: a Reconcile call on a TSRecorder marked for deletion removes the
\* finalizer only when its cleanup reported done without error; when the
\* cleanup reports not done the call asks for a requeue and the finalizer is
\* still there; when the finalizer is already absent the call runs no
\* cleanup, makes no update and leaves the object as it is.
C38_FinalizerAfterCleanup ==
    [][(t_n' # t_n /\ t_obj.exists /\ t_obj.deleting) =>
         /\ (t_obj.finalizer /\ ~t_obj'.finalizer)
               => t_rec'.cleanup = "done"
         /\ t_rec'.cleanup = "not done"
               => (t_rec'.requeue /\ t_rec'.err = ErrNil /\ t_obj' = t_obj
                   /\ t_obj'.finalizer)
         /\ (~t_obj.finalizer /\ t_rec'.path # "get")
               => (t_rec'.cleanup = "none" /\ t_rec'.update = "none"
                   /\ t_obj' = t_obj)]_vars

\* A Reconcile call has asked for a requeue because the cleanup of a
\* TSRecorder marked for deletion was not done; the finalizer is in place.
C38_Witness ==
    /\ t_rec.cleanup = "not done"
    /\ t_rec.requeue
    /\ t_obj.exists
    /\ t_obj.deleting
    /\ t_obj.finalizer

\* C39: whenever the Status().Update call made by setStatus fails, the
\* Reconcile call returns an error that is not nil, whichever path called
\* setStatus.
C39_StatusUpdateErrorReturned ==
    t_rec.statusUpdate = "failed" => t_rec.err # ErrNil

====
